---- MODULE Spec2Model ----
(***************************************************************************)
(* Model of the Q-vector correction steps of the flow vector correction   *)
(* framework: the CorrectionStep state machine and the GainEqualization,  *)
(* Recentering and TwistAndRescale steps of one sub-event.                 *)
(***************************************************************************)
EXTENDS Integers, Sequences, FiniteSets, TLC

(***************************************************************************)
(* Double_t / Float_t values.  A value is an exact fraction n/d (d > 0,    *)
(* lowest terms) or one of the IEEE special values: k = "inf" with sign n, *)
(* k = "nan".  Rounding is not modelled; division by zero, inf and NaN     *)
(* follow IEEE-754, which is what the compiled code computes.              *)
(***************************************************************************)
RECURSIVE GCD(_, _)
GCD(a, b) ==
    IF b = 0 THEN a ELSE GCD(b, a % b)

IAbs(i) ==
    IF i < 0 THEN -i ELSE i

Sign(i) ==
    IF i < 0 THEN -1 ELSE IF i = 0 THEN 0 ELSE 1

NaN ==
    [k |-> "nan", n |-> 0, d |-> 1]

Inf(s) ==
    [k |-> "inf", n |-> s, d |-> 1]

Frac(n, d) ==
    LET g == GCD(IAbs(n), IAbs(d))
    IN  [k |-> "fin", n |-> (Sign(d) * n) \div g, d |-> IAbs(d) \div g]

D(i) ==
    [k |-> "fin", n |-> i, d |-> 1]

DNeg(a) ==
    IF a.k = "nan" THEN NaN ELSE [a EXCEPT !.n = -a.n]

DAdd(a, b) ==
    CASE a.k = "nan" \/ b.k = "nan" -> NaN
      [] a.k = "inf" /\ b.k = "inf" -> IF a.n = b.n THEN a ELSE NaN
      [] a.k = "inf" -> a
      [] b.k = "inf" -> b
      [] OTHER -> LET g == GCD(a.d, b.d)
                  IN  Frac(a.n * (b.d \div g) + b.n * (a.d \div g), (a.d \div g) * b.d)

DSub(a, b) ==
    DAdd(a, DNeg(b))

DMul(a, b) ==
    CASE a.k = "nan" \/ b.k = "nan" -> NaN
      [] a.k = "inf" \/ b.k = "inf" ->
           IF Sign(a.n) * Sign(b.n) = 0 THEN NaN ELSE Inf(Sign(a.n) * Sign(b.n))
      [] OTHER -> Frac(a.n * b.n, a.d * b.d)

DDiv(a, b) ==
    CASE a.k = "nan" \/ b.k = "nan" -> NaN
      [] a.k = "inf" /\ b.k = "inf" -> NaN
      [] a.k = "inf" -> Inf(IF b.n < 0 THEN -a.n ELSE a.n)
      [] b.k = "inf" -> D(0)
      [] b.n = 0 -> IF a.n = 0 THEN NaN ELSE Inf(Sign(a.n))
      [] OTHER -> Frac(a.n * b.d, a.d * b.n)

\* TMath::Abs
DAbs(a) ==
    IF a.k = "nan" THEN NaN ELSE [a EXCEPT !.n = IAbs(a.n)]

\* a < b; every comparison with NaN is false
DLess(a, b) ==
    CASE a.k = "nan" \/ b.k = "nan" -> FALSE
      [] a.k = "inf" /\ b.k = "inf" -> a.n < b.n
      [] a.k = "inf" -> a.n < 0
      [] b.k = "inf" -> b.n > 0
      [] OTHER -> a.n * b.d < b.n * a.d

\* a == b on doubles (NaN is not equal to itself)
DEq(a, b) ==
    a.k # "nan" /\ b.k # "nan" /\ a = b

ISqrt(i) ==
    CHOOSE r \in 0..i : r * r <= i /\ (r + 1) * (r + 1) > i

\* TMath::Sqrt, exact on the fractions whose terms are perfect squares (the
\* only ones the input tables of this model hold), rounded down otherwise
DSqrt(a) ==
    CASE a.k = "nan" -> NaN
      [] a.k = "inf" -> IF a.n > 0 THEN a ELSE NaN
      [] a.n < 0 -> NaN
      [] OTHER -> Frac(ISqrt(a.n), ISqrt(a.d))

(***************************************************************************)
(* Bounds of the model                                                     *)
(***************************************************************************)
\* number of harmonics configured for the sub-event (harmonic map 1..n)
NoOfHarmonics ==
    3

\* events of one run
MaxEvents ==
    1

\* per-event stage calls (ProcessCorrections, ProcessDataCollection) of one run
MaxCalls ==
    2

\* events of one pass of the two passes over one set of events
MaxPassEvents ==
    3

\* values fed into one Profile
MaxUpdates ==
    2

Harmonics ==
    1..NoOfHarmonics

\* event-class bins: the input tables below validate bin 1 and not bin 2
Bins ==
    {1, 2}

\* channels of the channelized sub-event
Channels ==
    {0, 1}

(***************************************************************************)
(* Program constants                                                       *)
(***************************************************************************)
fDefaultMinNoOfEntries ==
    2

fMaxThreshold ==
    99999999

\* 1E-6
fMinimumSignificantValue ==
    Frac(1, 1000000)

GAINEQUALIZATION_SHIFTDEFAULT ==
    0

GAINEQUALIZATION_SCALEDEFAULT ==
    1

State ==
    {"CALIBRATION", "APPLY", "APPLYCOLLECT", "PASSIVE"}

\* the two GainEqualization sources of the repository differ in the type of
\* AttachInput: "GainEqualization" is src/Correction (void), "GainEqualizationQn"
\* is src/QnCorrections (Bool_t)
Kinds ==
    {"GainEqualization", "GainEqualizationQn", "Recentering", "TwistAndRescale"}

IsGainEqualization(kind) ==
    kind \in {"GainEqualization", "GainEqualizationQn"}

Configurations ==
    LET base == [kind |-> "Recentering", fApplyWidthEqualization |-> FALSE,
                 fTwistAndRescaleMethod |-> "TWRESCALE_doubleHarmonic",
                 fApplyTwist |-> TRUE, fApplyRescale |-> TRUE,
                 fEqualizationMethod |-> "NONE", fUseChannelGroupsWeights |-> FALSE,
                 hardCodedGroupWeights |-> FALSE]
    IN  {[base EXCEPT !.fApplyWidthEqualization = w] : w \in BOOLEAN}
        \cup {[base EXCEPT !.kind = "TwistAndRescale", !.fTwistAndRescaleMethod = m,
                           !.fApplyTwist = t, !.fApplyRescale = r] :
                 m \in {"TWRESCALE_doubleHarmonic", "TWRESCALE_correlations"},
                 t \in BOOLEAN, r \in BOOLEAN}
        \cup {[base EXCEPT !.kind = g] : g \in {"GainEqualization", "GainEqualizationQn"}}
        \cup {[base EXCEPT !.kind = g, !.fEqualizationMethod = e,
                           !.fUseChannelGroupsWeights = w[1],
                           !.hardCodedGroupWeights = w[2]] :
                 g \in {"GainEqualization", "GainEqualizationQn"},
                 e \in {"AVERAGE", "WIDTH"},
                 w \in {<<FALSE, FALSE>>, <<FALSE, TRUE>>, <<TRUE, FALSE>>}}

(***************************************************************************)
(* CorrectionQnVector                                                      *)
(***************************************************************************)
ZeroVector ==
    [good |-> FALSE, qx |-> [h \in Harmonics |-> D(0)], qy |-> [h \in Harmonics |-> D(0)]]

\* CorrectionQnVector::Reset
Reset(v) ==
    ZeroVector

\* CorrectionQnVector::Set(other, kFALSE): every property of other but its name
Set(v, other) ==
    other

SetQx(v, h, x) ==
    [v EXCEPT !.qx[h] = x]

SetQy(v, h, y) ==
    [v EXCEPT !.qy[h] = y]

SetGood(v, g) ==
    [v EXCEPT !.good = g]

GetFirstHarmonic ==
    IF NoOfHarmonics >= 1 THEN 1 ELSE -1

GetNextHarmonic(h) ==
    IF h < NoOfHarmonics THEN h + 1 ELSE -1

GoodVector(seed) ==
    [good |-> TRUE, qx |-> [h \in Harmonics |-> D(seed + h)],
     qy |-> [h \in Harmonics |-> D(seed - 2 * h)]]

(***************************************************************************)
(* Events: the event-class bin, the plain Qn vector the sub-event built,   *)
(* its plain Q2n vector, the current Qn vectors of the reference sub-events*)
(* B and C, and the input data bank (channel id, equalized weight).        *)
(***************************************************************************)
Event(bin, good, bGood, cGood) ==
    [bin |-> bin,
     plain |-> IF good THEN GoodVector(1) ELSE ZeroVector,
     q2n |-> IF good THEN GoodVector(2) ELSE ZeroVector,
     bQn |-> IF bGood THEN GoodVector(3) ELSE ZeroVector,
     cQn |-> IF cGood THEN GoodVector(4) ELSE ZeroVector,
     bank |-> IF good THEN <<[id |-> 0, w |-> D(2)], [id |-> 1, w |-> D(3)]>> ELSE <<>>]

NoEvent ==
    Event(1, FALSE, FALSE, FALSE)

Events(c) ==
    IF c.kind = "TwistAndRescale" /\ c.fTwistAndRescaleMethod = "TWRESCALE_correlations"
    THEN {Event(b, g, r, r) : b \in Bins, g \in BOOLEAN, r \in BOOLEAN}
    ELSE {Event(b, g, TRUE, TRUE) : b \in Bins, g \in BOOLEAN}

(***************************************************************************)
(* Input tables, as a persisted calibration holds them.  entries is the    *)
(* entry count of the event-class bin; bin 1 is validated, bin 2 is not.   *)
(***************************************************************************)
TableEntries ==
    [b \in Bins |-> IF b = 1 THEN 5 ELSE 1]

RecenteringTable ==
    [entries |-> TableEntries,
     x |-> [b \in Bins |-> [h \in Harmonics |-> D(h)]],
     y |-> [b \in Bins |-> [h \in Harmonics |-> D(-1)]],
     xerr |-> [b \in Bins |-> [h \in Harmonics |-> D(2)]],
     yerr |-> [b \in Bins |-> [h \in Harmonics |-> Frac(1, 2)]]]

\* X2n, Y2n under the key of the profile, twice the harmonic number.  Harmonic
\* 1 (key 2) has X2n = -1 and Y2n = 0, so that A+ = 0 and Lambda+ = 0/0;
\* harmonic 2 (key 4) has Y2n = 1E8, so that Lambda+ and Lambda- exceed
\* fMaxThreshold; the harmonics after them have parameters in range
DoubleHarmonicTable ==
    [entries |-> TableEntries,
     x |-> [b \in Bins |-> [k \in {2 * h : h \in Harmonics} |->
              CASE k = 2 -> D(-1) [] k = 4 -> D(0) [] OTHER -> Frac(1, 2)]],
     y |-> [b \in Bins |-> [k \in {2 * h : h \in Harmonics} |->
              CASE k = 2 -> D(0) [] k = 4 -> D(100000000) [] OTHER -> Frac(1, 4)]]]

\* the correlation components by harmonic.  Harmonic 1 has XAXC = 0, so that
\* A+ = A- = 0 with Lambda+ and Lambda- in range; harmonic 2 has XAYB = 1E8,
\* so that Lambda+ exceeds fMaxThreshold; the harmonics after them have
\* parameters in range
CorrelationsTable ==
    [entries |-> TableEntries,
     xaxc |-> [b \in Bins |-> [h \in Harmonics |-> IF h = 1 THEN D(0) ELSE D(2)]],
     yayb |-> [b \in Bins |-> [h \in Harmonics |-> D(3)]],
     xaxb |-> [b \in Bins |-> [h \in Harmonics |-> IF h = 2 THEN D(1) ELSE D(2)]],
     xbxc |-> [b \in Bins |-> [h \in Harmonics |-> IF h = 2 THEN D(4) ELSE D(2)]],
     xayb |-> [b \in Bins |-> [h \in Harmonics |-> IF h = 2 THEN D(100000000) ELSE D(1)]],
     xbyc |-> [b \in Bins |-> [h \in Harmonics |-> D(0)]]]

\* per channel: channel 0 has average 2, channel 1 an average below 1E-6
GainTable ==
    [entries |-> TableEntries,
     content |-> [b \in Bins |-> [c \in Channels |-> IF c = 0 THEN D(2) ELSE D(0)]],
     error |-> [b \in Bins |-> [c \in Channels |-> Frac(1, 2)]],
     grp |-> [b \in Bins |-> [c \in Channels |-> D(3)]]]

NoTable ==
    [entries |-> [b \in Bins |-> 0]]

TableOf(c) ==
    CASE c.kind = "Recentering" -> RecenteringTable
      [] c.kind = "TwistAndRescale" /\ c.fTwistAndRescaleMethod = "TWRESCALE_doubleHarmonic"
           -> DoubleHarmonicTable
      [] c.kind = "TwistAndRescale" -> CorrelationsTable
      [] OTHER -> GainTable

\* a persisted calibration that holds nothing to correct: a recentering table
\* of mean 0 and width 1, a double harmonic table with X2n = Y2n = 0
UnitTable(c) ==
    CASE c.kind = "Recentering" ->
           [entries |-> TableEntries,
            x |-> [b \in Bins |-> [h \in Harmonics |-> D(0)]],
            y |-> [b \in Bins |-> [h \in Harmonics |-> D(0)]],
            xerr |-> [b \in Bins |-> [h \in Harmonics |-> D(1)]],
            yerr |-> [b \in Bins |-> [h \in Harmonics |-> D(1)]]]
      [] OTHER ->
           [entries |-> TableEntries,
            x |-> [b \in Bins |-> [k \in {2 * h : h \in Harmonics} |-> D(0)]],
            y |-> [b \in Bins |-> [k \in {2 * h : h \in Harmonics} |-> D(0)]]]

Tables(c) ==
    {TableOf(c), UnitTable(c)}

\* the TList offered to AttachInput: it holds the step's histograms or not
Lists(c) ==
    {[found |-> FALSE, table |-> NoTable], [found |-> TRUE, table |-> TableOf(c)]}

\* the hard coded group weights of a sub-event; null: nullptr
None ==
    [null |-> TRUE, w |-> [ch \in Channels |-> D(0)]]

\* SubEventChannels::GetHardCodedGroupWeights
GetHardCodedGroupWeights(c) ==
    IF c.hardCodedGroupWeights
    THEN [null |-> FALSE, w |-> [ch \in Channels |-> D(ch + 2)]]
    ELSE None

(***************************************************************************)
(* A correction step together with the data of its owner sub-event that    *)
(* its handlers read and write.  The handlers below are functions from     *)
(* this record (and the event) to the record after the call; ret is the    *)
(* value the call returned and out its output parameters.                  *)
(*   fCurrentQnVector names the vector the sub-event's current Qn vector   *)
(*   pointer points to: "plain", "corrected" (fCorrectedQnVector),         *)
(*   "twist" (fTwistCorrectedQnVector) or "rescale".                       *)
(*   fCalibrationHistograms is the sequence of entries filled so far.      *)
(*   fQANotValidatedBin is the number of entries of the not validated      *)
(*   histogram, fQAEntries the number of fills of the QA histograms (the   *)
(*   run is set up with both kinds of QA histograms created).              *)
(***************************************************************************)
kTRUE ==
    "kTRUE"

kFALSE ==
    "kFALSE"

void ==
    "void"

\* output parameters of a call: the names added to the calibration list and to
\* the apply list (ReportUsage), the vectors added to the list
\* (IncludeCorrectedQnVector)
NoOut ==
    [calibrationList |-> <<>>, applyList |-> <<>>, list |-> <<>>]

Lists2(calibrationList, applyList) ==
    [calibrationList |-> calibrationList, applyList |-> applyList, list |-> <<>>]

NewStep(state) ==
    [fState |-> state,
     fInputHistograms |-> NoTable,
     fHardCodedWeights |-> None,
     fCalibrationHistograms |-> <<>>,
     fQANotValidatedBin |-> 0,
     fQAEntries |-> 0,
     fCorrectedQnVector |-> ZeroVector,
     fTwistCorrectedQnVector |-> ZeroVector,
     fRescaleCorrectedQnVector |-> ZeroVector,
     fCurrentQnVector |-> "plain",
     fDataVectorBank |-> <<>>,
     ret |-> void,
     out |-> NoOut]

\* SubEvent::GetCurrentQnVector
GetCurrentQnVector(s, ev) ==
    CASE s.fCurrentQnVector = "plain" -> ev.plain
      [] s.fCurrentQnVector = "corrected" -> s.fCorrectedQnVector
      [] s.fCurrentQnVector = "twist" -> s.fTwistCorrectedQnVector
      [] OTHER -> s.fRescaleCorrectedQnVector

\* SubEvent::UpdateCurrentQnVector
UpdateCurrentQnVector(s, name) ==
    [s EXCEPT !.fCurrentQnVector = name]

\* fInputQnVector = GetPreviousCorrectedQnVector(this): the step is the first Qn
\* vector correction of its sub-event, so its input is the plain Qn vector
fInputQnVector(s, ev) ==
    ev.plain

\* CorrectionHistogramBase::BinContentValidated with SetNoOfEntriesThreshold
BinContentValidated(table, bin) ==
    table.entries[bin] > fDefaultMinNoOfEntries

\* AttachHistograms(list): the histograms found in the list become the input ones
AttachHistograms(table, list) ==
    [ok |-> list.found, table |-> IF list.found THEN list.table ELSE table]

(***************************************************************************)
(* Recentering                                                             *)
(***************************************************************************)
\* mutant: a failed attach puts the step back in CALIBRATION
Recentering_AttachInput_Reset(c, s, list) ==
    LET a == AttachHistograms(s.fInputHistograms, list)
    IN  IF a.ok
        THEN [s EXCEPT !.fInputHistograms = a.table, !.fState = "APPLYCOLLECT", !.ret = kTRUE]
        ELSE [s EXCEPT !.fInputHistograms = a.table, !.fState = "CALIBRATION", !.ret = kFALSE]

Recentering_AttachInput(c, s, list) ==
    LET a == AttachHistograms(s.fInputHistograms, list)
    IN  IF a.ok
        THEN [s EXCEPT !.fInputHistograms = a.table, !.fState = "APPLYCOLLECT", !.ret = kTRUE]
        ELSE [s EXCEPT !.fInputHistograms = a.table, !.ret = kFALSE]

\* mutant: the widths of the table are not applied
RECURSIVE Recentering_CorrectHarmonics_UnitWidth(_, _, _, _, _, _, _)
Recentering_CorrectHarmonics_UnitWidth(c, table, bin, self, cur, v, harmonic) ==
    IF harmonic = -1 THEN v
    ELSE LET src == IF self THEN v ELSE cur
             v1 == SetQx(v, harmonic, DSub(src.qx[harmonic], table.x[bin][harmonic]))
             src1 == IF self THEN v1 ELSE cur
             v2 == SetQy(v1, harmonic, DSub(src1.qy[harmonic], table.y[bin][harmonic]))
         IN  Recentering_CorrectHarmonics_UnitWidth(c, table, bin, self, cur, v2,
                                                    GetNextHarmonic(harmonic))

\* the while loop of ProcessCorrections; when the current Qn vector is the
\* step's own corrected vector the reads see the vector being written
\* a loop that reads the x component from the y component of its input
RECURSIVE Recentering_CorrectHarmonics_Swapped(_, _, _, _, _, _, _)
Recentering_CorrectHarmonics_Swapped(c, table, bin, self, cur, v, harmonic) ==
    IF harmonic = -1 THEN v
    ELSE LET src == IF self THEN v ELSE cur
             widthX == IF c.fApplyWidthEqualization THEN table.xerr[bin][harmonic] ELSE D(1)
             widthY == IF c.fApplyWidthEqualization THEN table.yerr[bin][harmonic] ELSE D(1)
             v1 == SetQx(v, harmonic, DDiv(DSub(src.qy[harmonic], table.x[bin][harmonic]), widthX))
             src1 == IF self THEN v1 ELSE cur
             v2 == SetQy(v1, harmonic, DDiv(DSub(src1.qy[harmonic], table.y[bin][harmonic]), widthY))
         IN  Recentering_CorrectHarmonics_Swapped(c, table, bin, self, cur, v2,
                                                  GetNextHarmonic(harmonic))

RECURSIVE Recentering_CorrectHarmonics(_, _, _, _, _, _, _)
Recentering_CorrectHarmonics(c, table, bin, self, cur, v, harmonic) ==
    IF harmonic = -1 THEN v
    ELSE LET src == IF self THEN v ELSE cur
             widthX == IF c.fApplyWidthEqualization THEN table.xerr[bin][harmonic] ELSE D(1)
             widthY == IF c.fApplyWidthEqualization THEN table.yerr[bin][harmonic] ELSE D(1)
             v1 == SetQx(v, harmonic, DDiv(DSub(src.qx[harmonic], table.x[bin][harmonic]), widthX))
             src1 == IF self THEN v1 ELSE cur
             v2 == SetQy(v1, harmonic, DDiv(DSub(src1.qy[harmonic], table.y[bin][harmonic]), widthY))
         IN  Recentering_CorrectHarmonics(c, table, bin, self, cur, v2,
                                          GetNextHarmonic(harmonic))

\* mutant: the quality of the current Qn vector is not looked at
Recentering_ProcessCorrections_IgnoresQuality(c, s, ev) ==
    CASE s.fState = "CALIBRATION" -> [s EXCEPT !.ret = kFALSE]
      [] s.fState \in {"APPLYCOLLECT", "APPLY"} ->
           LET cur == GetCurrentQnVector(s, ev)
               v0 == Set(s.fCorrectedQnVector, cur)
               s1 == IF BinContentValidated(s.fInputHistograms, ev.bin)
                     THEN [s EXCEPT !.fCorrectedQnVector =
                              Recentering_CorrectHarmonics(c, s.fInputHistograms, ev.bin,
                                  s.fCurrentQnVector = "corrected", cur, v0,
                                  GetFirstHarmonic)]
                     ELSE [s EXCEPT !.fCorrectedQnVector = v0,
                                    !.fQANotValidatedBin = @ + 1]
           IN  [UpdateCurrentQnVector(s1, "corrected") EXCEPT !.ret = kTRUE]
      [] OTHER -> [s EXCEPT !.ret = kFALSE]

\* mutant: a calibrating step publishes its corrected Qn vector as the current one
Recentering_ProcessCorrections_Publish(c, s, ev) ==
    CASE s.fState = "CALIBRATION" -> [UpdateCurrentQnVector(s, "corrected") EXCEPT !.ret = kFALSE]
      [] s.fState \in {"APPLYCOLLECT", "APPLY"} ->
           [UpdateCurrentQnVector(s, "corrected") EXCEPT
               !.fCorrectedQnVector = Set(@, GetCurrentQnVector(s, ev)), !.ret = kTRUE]
      [] OTHER -> [s EXCEPT !.ret = kFALSE]

Recentering_ProcessCorrections(c, s, ev) ==
    CASE s.fState = "CALIBRATION" -> [s EXCEPT !.ret = kFALSE]
      [] s.fState \in {"APPLYCOLLECT", "APPLY"} ->
           LET cur == GetCurrentQnVector(s, ev)
               v0 == Set(s.fCorrectedQnVector, cur)
               s1 == IF cur.good
                     THEN IF BinContentValidated(s.fInputHistograms, ev.bin)
                          THEN [s EXCEPT !.fCorrectedQnVector =
                                   Recentering_CorrectHarmonics(c, s.fInputHistograms, ev.bin,
                                       s.fCurrentQnVector = "corrected", cur, v0,
                                       GetFirstHarmonic)]
                          ELSE [s EXCEPT !.fCorrectedQnVector = v0,
                                         !.fQANotValidatedBin = @ + 1]
                     ELSE [s EXCEPT !.fCorrectedQnVector = SetGood(@, FALSE)]
           IN  [UpdateCurrentQnVector(s1, "corrected") EXCEPT !.ret = kTRUE]
      [] OTHER -> [s EXCEPT !.ret = kFALSE]

\* FillX and FillY of every harmonic of the input Qn vector
RECURSIVE Recentering_FillHarmonics(_, _, _, _)
Recentering_FillHarmonics(hist, bin, v, harmonic) ==
    IF harmonic = -1 THEN hist
    ELSE Recentering_FillHarmonics(
             hist \o <<[key |-> <<"X", harmonic>>, bin |-> bin, val |-> v.qx[harmonic]],
                       [key |-> <<"Y", harmonic>>, bin |-> bin, val |-> v.qy[harmonic]]>>,
             bin, v, GetNextHarmonic(harmonic))

\* mutant: the corrected Qn vector of the step is collected instead of its input
Recentering_Collect_Corrected(s, ev) ==
    IF fInputQnVector(s, ev).good
    THEN [s EXCEPT !.fCalibrationHistograms =
             Recentering_FillHarmonics(@, ev.bin, s.fCorrectedQnVector, GetFirstHarmonic)]
    ELSE s

Recentering_Collect(s, ev) ==
    IF fInputQnVector(s, ev).good
    THEN [s EXCEPT !.fCalibrationHistograms =
             Recentering_FillHarmonics(@, ev.bin, fInputQnVector(s, ev), GetFirstHarmonic)]
    ELSE s

\* mutant: a step in APPLY collects as a step in APPLYCOLLECT does
Recentering_ProcessDataCollection_ApplyCollects(c, s, ev) ==
    CASE s.fState = "CALIBRATION" -> [Recentering_Collect(s, ev) EXCEPT !.ret = kFALSE]
      [] s.fState \in {"APPLYCOLLECT", "APPLY"} ->
           [Recentering_Collect(s, ev) EXCEPT !.fQAEntries = @ + 1, !.ret = kTRUE]
      [] OTHER -> [s EXCEPT !.ret = kFALSE]

Recentering_ProcessDataCollection(c, s, ev) ==
    CASE s.fState = "CALIBRATION" -> [Recentering_Collect(s, ev) EXCEPT !.ret = kFALSE]
      [] s.fState = "APPLYCOLLECT" ->
           [Recentering_Collect(s, ev) EXCEPT !.fQAEntries = @ + 1, !.ret = kTRUE]
      [] s.fState = "APPLY" -> [s EXCEPT !.fQAEntries = @ + 1, !.ret = kTRUE]
      [] OTHER -> [s EXCEPT !.ret = kFALSE]

\* mutant: clearing the step sends it back to CALIBRATION
Recentering_ClearCorrectionStep_Restarts(c, s) ==
    [s EXCEPT !.fCorrectedQnVector = Reset(@), !.fState = "CALIBRATION", !.ret = void]

Recentering_ClearCorrectionStep(c, s) ==
    [s EXCEPT !.fCorrectedQnVector = Reset(@), !.ret = void]

Recentering_IsBeingApplied(s) ==
    CASE s.fState = "CALIBRATION" -> FALSE
      [] s.fState \in {"APPLYCOLLECT", "APPLY"} -> TRUE
      [] OTHER -> FALSE

\* out = <<names added to calibrationList, names added to applyList>>
\* a ReportUsage whose CALIBRATION case falls through to the applying cases
Recentering_ReportUsage_FallsThrough(c, s) ==
    CASE s.fState \in {"CALIBRATION", "APPLYCOLLECT"} ->
           [s EXCEPT !.out = Lists2(<<"Recentering and width equalization">>,
                                      <<"Recentering and width equalization">>), !.ret = kTRUE]
      [] s.fState = "APPLY" ->
           [s EXCEPT !.out = Lists2(<<>>, <<"Recentering and width equalization">>), !.ret = kTRUE]
      [] OTHER -> [s EXCEPT !.out = Lists2(<<>>, <<>>), !.ret = kFALSE]

Recentering_ReportUsage(c, s) ==
    CASE s.fState = "CALIBRATION" ->
           [s EXCEPT !.out = Lists2(<<"Recentering and width equalization">>, <<>>), !.ret = kFALSE]
      [] s.fState = "APPLYCOLLECT" ->
           [s EXCEPT !.out = Lists2(<<"Recentering and width equalization">>,
                                      <<"Recentering and width equalization">>), !.ret = kTRUE]
      [] s.fState = "APPLY" ->
           [s EXCEPT !.out = Lists2(<<>>, <<"Recentering and width equalization">>), !.ret = kTRUE]
      [] OTHER -> [s EXCEPT !.out = Lists2(<<>>, <<>>), !.ret = kFALSE]

(***************************************************************************)
(* TwistAndRescale                                                         *)
(***************************************************************************)
IsCorrelations(c) ==
    c.kind = "TwistAndRescale" /\ c.fTwistAndRescaleMethod = "TWRESCALE_correlations"

\* mutant: attaching again freezes the calibration of an applying step
TwistAndRescale_AttachInput_Freeze(c, s, list) ==
    LET a == AttachHistograms(s.fInputHistograms, list)
    IN  IF a.ok
        THEN [s EXCEPT !.fInputHistograms = a.table,
                       !.fState = IF @ = "APPLYCOLLECT" THEN "APPLY" ELSE "APPLYCOLLECT",
                       !.ret = kTRUE]
        ELSE [s EXCEPT !.fInputHistograms = a.table, !.ret = kFALSE]

TwistAndRescale_AttachInput(c, s, list) ==
    LET a == AttachHistograms(s.fInputHistograms, list)
    IN  IF a.ok
        THEN [s EXCEPT !.fInputHistograms = a.table, !.fState = "APPLYCOLLECT", !.ret = kTRUE]
        ELSE [s EXCEPT !.fInputHistograms = a.table, !.ret = kFALSE]

TwistAndRescale_IsBeingApplied(s) ==
    CASE s.fState = "CALIBRATION" -> FALSE
      [] s.fState \in {"APPLYCOLLECT", "APPLY"} -> TRUE
      [] OTHER -> FALSE

\* mutant: the step is sent back to CALIBRATION when B does not apply its twist
TwistAndRescale_AfterInputsAttachActions_Calibration(c, s, bApplied) ==
    CASE c.fTwistAndRescaleMethod = "TWRESCALE_doubleHarmonic" -> [s EXCEPT !.ret = void]
      [] c.fTwistAndRescaleMethod = "TWRESCALE_correlations" ->
           IF ~bApplied THEN [s EXCEPT !.fState = "CALIBRATION", !.ret = void]
           ELSE [s EXCEPT !.ret = void]
      [] OTHER -> [s EXCEPT !.ret = void]

\* mutant: B is checked whatever the method of the step
TwistAndRescale_AfterInputsAttachActions_AnyMethod(c, s, bApplied) ==
    IF ~bApplied THEN [s EXCEPT !.fState = "PASSIVE", !.ret = void]
    ELSE [s EXCEPT !.ret = void]

\* bApplied is fBDetectorConfiguration->IsCorrectionStepBeingApplied("Twist")
TwistAndRescale_AfterInputsAttachActions(c, s, bApplied) ==
    CASE c.fTwistAndRescaleMethod = "TWRESCALE_doubleHarmonic" -> [s EXCEPT !.ret = void]
      [] c.fTwistAndRescaleMethod = "TWRESCALE_correlations" ->
           IF ~bApplied THEN [s EXCEPT !.fState = "PASSIVE", !.ret = void]
           ELSE [s EXCEPT !.ret = void]
      [] OTHER -> [s EXCEPT !.ret = void]

\* parameters with A+ = X2n and A- = -X2n
DoubleHarmonicParameters_NoUnit(table, bin, harmonic) ==
    LET X2n == table.x[bin][harmonic * 2]
        Y2n == table.y[bin][harmonic * 2]
        Aplus == X2n
        Aminus == DSub(D(0), X2n)
    IN  [Aplus |-> Aplus, Aminus |-> Aminus,
         LambdaPlus |-> DDiv(Y2n, Aplus), LambdaMinus |-> DDiv(Y2n, Aminus)]

\* A+, A-, Lambda+, Lambda- of one harmonic
DoubleHarmonicParameters(table, bin, harmonic) ==
    LET X2n == table.x[bin][harmonic * 2]
        Y2n == table.y[bin][harmonic * 2]
        Aplus == DAdd(D(1), X2n)
        Aminus == DSub(D(1), X2n)
    IN  [Aplus |-> Aplus, Aminus |-> Aminus,
         LambdaPlus |-> DDiv(Y2n, Aplus), LambdaMinus |-> DDiv(Y2n, Aminus)]

CorrelationsParameters(table, bin, harmonic) ==
    LET XAXC == table.xaxc[bin][harmonic]
        YAYB == table.yayb[bin][harmonic]
        XAXB == table.xaxb[bin][harmonic]
        XBXC == table.xbxc[bin][harmonic]
        XAYB == table.xayb[bin][harmonic]
        XBYC == table.xbyc[bin][harmonic]
        den == DSqrt(DAbs(DAdd(DMul(XAXB, XBXC), DMul(XAYB, XBYC))))
        num == DSqrt(DAbs(DMul(D(2), XAXC)))
    IN  [Aplus |-> DDiv(DMul(num, XAXB), den), Aminus |-> DDiv(DMul(num, YAYB), den),
         LambdaPlus |-> DDiv(XAYB, XAXB), LambdaMinus |-> DDiv(XAYB, YAYB)]

\* one of |A+|, |A-|, |Lambda+|, |Lambda-| exceeds fMaxThreshold
ExceedsThreshold(p) ==
    \/ DLess(D(fMaxThreshold), DAbs(p.Aplus))
    \/ DLess(D(fMaxThreshold), DAbs(p.Aminus))
    \/ DLess(D(fMaxThreshold), DAbs(p.LambdaPlus))
    \/ DLess(D(fMaxThreshold), DAbs(p.LambdaMinus))

\* mutant: a harmonic whose parameters exceed the threshold ends the loop
TwistAndRescale_NextHarmonic_ThresholdBreaks(c, p, harmonic) ==
    IF ExceedsThreshold(p) THEN -1 ELSE GetNextHarmonic(harmonic)

\* the harmonic the while loop of ProcessCorrections goes on with after the
\* body for one harmonic: every path of the body (one of the four thresholds
\* exceeded, A+ or A- zero, the end of the body) advances with GetNextHarmonic
TwistAndRescale_NextHarmonic(c, p, harmonic) ==
    IF ExceedsThreshold(p) THEN GetNextHarmonic(harmonic)
    ELSE IF DEq(p.Aplus, D(0)) \/ DEq(p.Aminus, D(0)) THEN GetNextHarmonic(harmonic)
    ELSE GetNextHarmonic(harmonic)

\* mutant: a harmonic whose parameters exceed the threshold is zeroed
TwistAndRescale_CorrectHarmonic_ThresholdZeroes(c, p, v, harmonic) ==
    IF \/ DLess(D(fMaxThreshold), DAbs(p.Aplus))
       \/ DLess(D(fMaxThreshold), DAbs(p.Aminus))
       \/ DLess(D(fMaxThreshold), DAbs(p.LambdaPlus))
       \/ DLess(D(fMaxThreshold), DAbs(p.LambdaMinus))
    THEN [corrected |-> SetQy(SetQx(v.corrected, harmonic, D(0)), harmonic, D(0)),
          twist |-> SetQy(SetQx(v.twist, harmonic, D(0)), harmonic, D(0)),
          rescale |-> SetQy(SetQx(v.rescale, harmonic, D(0)), harmonic, D(0))]
    ELSE v

\* mutant: the twisted Qy is computed from the twisted Qx
TwistAndRescale_CorrectHarmonic_Sequential(c, p, v, harmonic) ==
    IF ExceedsThreshold(p)
    THEN v
    ELSE LET Qx == v.twist.qx[harmonic]
             Qy == v.twist.qy[harmonic]
             den == DSub(D(1), DMul(p.LambdaMinus, p.LambdaPlus))
             newQx == DDiv(DSub(Qx, DMul(p.LambdaMinus, Qy)), den)
             newQy == DDiv(DSub(Qy, DMul(p.LambdaPlus, newQx)), den)
             v1 == IF c.fApplyTwist
                   THEN [corrected |-> SetQy(SetQx(v.corrected, harmonic, newQx), harmonic, newQy),
                         twist |-> SetQy(SetQx(v.twist, harmonic, newQx), harmonic, newQy),
                         rescale |-> SetQy(SetQx(v.rescale, harmonic, newQx), harmonic, newQy)]
                   ELSE v
             resQx == DDiv(newQx, p.Aplus)
             resQy == DDiv(newQy, p.Aminus)
         IN  IF DEq(p.Aplus, D(0)) \/ DEq(p.Aminus, D(0)) THEN v1
             ELSE IF c.fApplyRescale
                  THEN [v1 EXCEPT !.corrected = SetQy(SetQx(@, harmonic, resQx), harmonic, resQy),
                                  !.rescale = SetQy(SetQx(@, harmonic, resQx), harmonic, resQy)]
                  ELSE v1

\* the body of the while loop of ProcessCorrections for one harmonic; v holds
\* the three vectors of the step: corrected, twist, rescale
TwistAndRescale_CorrectHarmonic(c, p, v, harmonic) ==
    IF \/ DLess(D(fMaxThreshold), DAbs(p.Aplus))
       \/ DLess(D(fMaxThreshold), DAbs(p.Aminus))
       \/ DLess(D(fMaxThreshold), DAbs(p.LambdaPlus))
       \/ DLess(D(fMaxThreshold), DAbs(p.LambdaMinus))
    THEN v
    ELSE LET Qx == v.twist.qx[harmonic]
             Qy == v.twist.qy[harmonic]
             den == DSub(D(1), DMul(p.LambdaMinus, p.LambdaPlus))
             newQx == DDiv(DSub(Qx, DMul(p.LambdaMinus, Qy)), den)
             newQy == DDiv(DSub(Qy, DMul(p.LambdaPlus, Qx)), den)
             v1 == IF c.fApplyTwist
                   THEN [corrected |-> SetQy(SetQx(v.corrected, harmonic, newQx), harmonic, newQy),
                         twist |-> SetQy(SetQx(v.twist, harmonic, newQx), harmonic, newQy),
                         rescale |-> SetQy(SetQx(v.rescale, harmonic, newQx), harmonic, newQy)]
                   ELSE v
             resQx == DDiv(newQx, p.Aplus)
             resQy == DDiv(newQy, p.Aminus)
         IN  IF DEq(p.Aplus, D(0)) \/ DEq(p.Aminus, D(0)) THEN v1
             ELSE IF c.fApplyRescale
                  THEN [v1 EXCEPT !.corrected = SetQy(SetQx(@, harmonic, resQx), harmonic, resQy),
                                  !.rescale = SetQy(SetQx(@, harmonic, resQx), harmonic, resQy)]
                  ELSE v1

RECURSIVE TwistAndRescale_CorrectHarmonics(_, _, _, _, _)
TwistAndRescale_CorrectHarmonics(c, table, bin, v, harmonic) ==
    IF harmonic = -1 THEN v
    ELSE LET p == IF c.fTwistAndRescaleMethod = "TWRESCALE_doubleHarmonic"
                  THEN DoubleHarmonicParameters(table, bin, harmonic)
                  ELSE CorrelationsParameters(table, bin, harmonic)
         IN  TwistAndRescale_CorrectHarmonics(c, table, bin,
                 TwistAndRescale_CorrectHarmonic(c, p, v, harmonic),
                 TwistAndRescale_NextHarmonic(c, p, harmonic))

\* the harmonics the while loop of ProcessCorrections enters, in their order;
\* the loop is followed for at most NoOfHarmonics + 1 rounds
RECURSIVE TwistAndRescale_VisitedHarmonics(_, _, _, _, _)
TwistAndRescale_VisitedHarmonics(c, table, bin, harmonic, visited) ==
    IF harmonic = -1 \/ Len(visited) > NoOfHarmonics THEN visited
    ELSE LET p == IF c.fTwistAndRescaleMethod = "TWRESCALE_doubleHarmonic"
                  THEN DoubleHarmonicParameters(table, bin, harmonic)
                  ELSE CorrelationsParameters(table, bin, harmonic)
         IN  TwistAndRescale_VisitedHarmonics(c, table, bin,
                 TwistAndRescale_NextHarmonic(c, p, harmonic), Append(visited, harmonic))

\* mutant: the twist corrected Qn vector is published after the rescaled one
TwistAndRescale_ProcessCorrections_TwistLast(c, s, ev) ==
    CASE s.fState = "CALIBRATION" -> [s EXCEPT !.ret = kFALSE]
      [] s.fState \in {"APPLYCOLLECT", "APPLY"} ->
           LET cur == GetCurrentQnVector(s, ev)
               s1 == IF cur.good
                     THEN [s EXCEPT !.fCorrectedQnVector = Set(@, cur),
                                    !.fTwistCorrectedQnVector = Set(@, cur),
                                    !.fRescaleCorrectedQnVector = Set(@, cur)]
                     ELSE [s EXCEPT !.fCorrectedQnVector = SetGood(@, FALSE)]
               s2 == IF c.fApplyRescale THEN UpdateCurrentQnVector(s1, "rescale") ELSE s1
               s3 == IF c.fApplyTwist THEN UpdateCurrentQnVector(s2, "twist") ELSE s2
           IN  [s3 EXCEPT !.ret = kTRUE]
      [] OTHER -> [s EXCEPT !.ret = kFALSE]

\* mutant: a current Qn vector of bad quality is reported as not corrected
TwistAndRescale_ProcessCorrections_BadQuality(c, s, ev) ==
    CASE s.fState = "CALIBRATION" -> [s EXCEPT !.ret = kFALSE]
      [] s.fState \in {"APPLYCOLLECT", "APPLY"} ->
           IF GetCurrentQnVector(s, ev).good
           THEN [s EXCEPT !.fCorrectedQnVector = Set(@, GetCurrentQnVector(s, ev)),
                          !.ret = kTRUE]
           ELSE [s EXCEPT !.fCorrectedQnVector = SetGood(@, FALSE), !.ret = kFALSE]
      [] OTHER -> [s EXCEPT !.ret = kFALSE]

TwistAndRescale_ProcessCorrections(c, s, ev) ==
    CASE s.fState = "CALIBRATION" -> [s EXCEPT !.ret = kFALSE]
      [] s.fState \in {"APPLYCOLLECT", "APPLY"} ->
           LET cur == GetCurrentQnVector(s, ev)
               v0 == [corrected |-> Set(s.fCorrectedQnVector, cur),
                      twist |-> Set(s.fTwistCorrectedQnVector, cur),
                      rescale |-> Set(s.fRescaleCorrectedQnVector, cur)]
               v1 == IF BinContentValidated(s.fInputHistograms, ev.bin)
                     THEN TwistAndRescale_CorrectHarmonics(c, s.fInputHistograms, ev.bin, v0,
                                                           GetFirstHarmonic)
                     ELSE v0
               s1 == IF cur.good
                     THEN [s EXCEPT !.fCorrectedQnVector = v1.corrected,
                                    !.fTwistCorrectedQnVector = v1.twist,
                                    !.fRescaleCorrectedQnVector = v1.rescale,
                                    !.fQANotValidatedBin =
                                        IF BinContentValidated(s.fInputHistograms, ev.bin)
                                        THEN @ ELSE @ + 1]
                     ELSE [s EXCEPT !.fCorrectedQnVector = SetGood(@, FALSE)]
               s2 == IF c.fApplyTwist THEN UpdateCurrentQnVector(s1, "twist") ELSE s1
               s3 == IF c.fApplyRescale THEN UpdateCurrentQnVector(s2, "rescale") ELSE s2
           IN  [s3 EXCEPT !.ret = kTRUE]
      [] OTHER -> [s EXCEPT !.ret = kFALSE]

\* double harmonic: FillX and FillY at 2*harmonic of the plain Q2n vector
RECURSIVE TwistAndRescale_FillHarmonics(_, _, _, _)
TwistAndRescale_FillHarmonics(hist, bin, v, harmonic) ==
    IF harmonic = -1 THEN hist
    ELSE TwistAndRescale_FillHarmonics(
             hist \o <<[key |-> <<"X", harmonic * 2>>, bin |-> bin, val |-> v.qx[harmonic]],
                       [key |-> <<"Y", harmonic * 2>>, bin |-> bin, val |-> v.qy[harmonic]]>>,
             bin, v, GetNextHarmonic(harmonic))

TwistAndRescale_Collect(c, s, ev) ==
    CASE c.fTwistAndRescaleMethod = "TWRESCALE_doubleHarmonic" ->
           IF ev.q2n.good
           THEN [s EXCEPT !.fCalibrationHistograms =
                    TwistAndRescale_FillHarmonics(@, ev.bin, ev.q2n, GetFirstHarmonic)]
           ELSE s
      [] c.fTwistAndRescaleMethod = "TWRESCALE_correlations" ->
           IF fInputQnVector(s, ev).good /\ ev.bQn.good /\ ev.cQn.good
           THEN [s EXCEPT !.fCalibrationHistograms =
                    Append(@, [key |-> <<"ABC", 1>>, bin |-> ev.bin,
                               val |-> <<fInputQnVector(s, ev), ev.bQn, ev.cQn>>])]
           ELSE s
      [] OTHER -> s

TwistAndRescale_QAFills(c) ==
    (IF c.fApplyTwist THEN 1 ELSE 0) + (IF c.fApplyRescale THEN 1 ELSE 0)

\* mutant: a passive step collects as a calibrating step does
TwistAndRescale_ProcessDataCollection_PassiveCollects(c, s, ev) ==
    CASE s.fState = "APPLYCOLLECT" ->
           [TwistAndRescale_Collect(c, s, ev) EXCEPT
               !.fQAEntries = @ + TwistAndRescale_QAFills(c), !.ret = kTRUE]
      [] s.fState = "APPLY" ->
           [s EXCEPT !.fQAEntries = @ + TwistAndRescale_QAFills(c), !.ret = kTRUE]
      [] OTHER -> [TwistAndRescale_Collect(c, s, ev) EXCEPT !.ret = kFALSE]

TwistAndRescale_ProcessDataCollection(c, s, ev) ==
    CASE s.fState = "CALIBRATION" -> [TwistAndRescale_Collect(c, s, ev) EXCEPT !.ret = kFALSE]
      [] s.fState = "APPLYCOLLECT" ->
           [TwistAndRescale_Collect(c, s, ev) EXCEPT
               !.fQAEntries = @ + TwistAndRescale_QAFills(c), !.ret = kTRUE]
      [] s.fState = "APPLY" ->
           [s EXCEPT !.fQAEntries = @ + TwistAndRescale_QAFills(c), !.ret = kTRUE]
      [] OTHER -> [s EXCEPT !.ret = kFALSE]

TwistAndRescale_ClearCorrectionStep(c, s) ==
    [s EXCEPT !.fTwistCorrectedQnVector = Reset(@),
              !.fRescaleCorrectedQnVector = Reset(@),
              !.fCorrectedQnVector = Reset(@),
              !.ret = void]

\* out = the vectors added to the list
TwistAndRescale_IncludeCorrectedQnVector(c, s) ==
    CASE s.fState = "CALIBRATION" -> [s EXCEPT !.out = NoOut, !.ret = void]
      [] s.fState \in {"APPLYCOLLECT", "APPLY"} ->
           [s EXCEPT !.out = [NoOut EXCEPT !.list =
                                 (IF c.fApplyTwist THEN <<"twist">> ELSE <<>>)
                                 \o (IF c.fApplyRescale THEN <<"rescale">> ELSE <<>>)],
                     !.ret = void]
      [] OTHER -> [s EXCEPT !.out = NoOut, !.ret = void]

TwistAndRescale_ReportUsage(c, s) ==
    CASE s.fState = "CALIBRATION" ->
           [s EXCEPT !.out = Lists2(<<"Twist and Rescale">>, <<>>), !.ret = kFALSE]
      [] s.fState = "APPLYCOLLECT" ->
           [s EXCEPT !.out = Lists2(<<"Twist and Rescale">>, <<"Twist and Rescale">>), !.ret = kTRUE]
      [] s.fState = "APPLY" ->
           [s EXCEPT !.out = Lists2(<<>>, <<"Twist and Rescale">>), !.ret = kTRUE]
      [] OTHER -> [s EXCEPT !.out = Lists2(<<>>, <<>>), !.ret = kFALSE]

(***************************************************************************)
(* GainEqualization                                                        *)
(***************************************************************************)
\* src/Correction: void AttachInput
GainEqualization_AttachInput(c, s, list) ==
    LET a == AttachHistograms(s.fInputHistograms, list)
    IN  IF a.ok
        THEN [s EXCEPT !.fInputHistograms = a.table, !.fState = "APPLYCOLLECT",
                       !.fHardCodedWeights = GetHardCodedGroupWeights(c), !.ret = void]
        ELSE [s EXCEPT !.fInputHistograms = a.table, !.ret = void]

\* mutant: the input is attached and the state of the step is left as it was
GainEqualizationQn_AttachInput_NoTransition(c, s, list) ==
    LET a == AttachHistograms(s.fInputHistograms, list)
    IN  IF a.ok
        THEN [s EXCEPT !.fInputHistograms = a.table,
                       !.fHardCodedWeights = GetHardCodedGroupWeights(c), !.ret = kTRUE]
        ELSE [s EXCEPT !.fInputHistograms = a.table, !.ret = kFALSE]

\* mutant: an input that is already attached is refused
GainEqualizationQn_AttachInput_Once(c, s, list) ==
    LET a == AttachHistograms(s.fInputHistograms, list)
    IN  IF a.ok /\ s.fState # "APPLYCOLLECT"
        THEN [s EXCEPT !.fInputHistograms = a.table, !.fState = "APPLYCOLLECT",
                       !.fHardCodedWeights = GetHardCodedGroupWeights(c), !.ret = kTRUE]
        ELSE [s EXCEPT !.ret = kFALSE]

\* src/QnCorrections: Bool_t AttachInput
GainEqualizationQn_AttachInput(c, s, list) ==
    LET a == AttachHistograms(s.fInputHistograms, list)
    IN  IF a.ok
        THEN [s EXCEPT !.fInputHistograms = a.table, !.fState = "APPLYCOLLECT",
                       !.fHardCodedWeights = GetHardCodedGroupWeights(c), !.ret = kTRUE]
        ELSE [s EXCEPT !.fInputHistograms = a.table, !.ret = kFALSE]

\* fCalibrationHistograms->Fill of every data vector of the input data bank
RECURSIVE GainEqualization_FillBank(_, _, _, _)
GainEqualization_FillBank(hist, bin, bank, i) ==
    IF i > Len(bank) THEN hist
    ELSE GainEqualization_FillBank(
             Append(hist, [key |-> <<"M", bank[i].id>>, bin |-> bin, val |-> bank[i].w]),
             bin, bank, i + 1)

GainEqualization_GroupWeight(c, s, bin, id) ==
    IF c.fUseChannelGroupsWeights THEN s.fInputHistograms.grp[bin][id]
    ELSE IF ~s.fHardCodedWeights.null THEN s.fHardCodedWeights.w[id]
    ELSE D(1)

\* mutant: the equalization parameters of a bin that is not validated are used
GainEqualization_EqualizedWeight_NotValidated(c, s, bin, dataVector) ==
    LET average == s.fInputHistograms.content[bin][dataVector.id]
        groupweight == GainEqualization_GroupWeight(c, s, bin, dataVector.id)
    IN  CASE c.fEqualizationMethod = "NONE" -> dataVector.w
          [] ~DLess(fMinimumSignificantValue, average) -> D(0)
          [] OTHER -> DMul(DDiv(dataVector.w, average), groupweight)

\* mutant: a data vector whose bin average is not significant keeps its weight
GainEqualization_EqualizedWeight_KeepsInsignificant(c, s, bin, dataVector) ==
    LET average == s.fInputHistograms.content[bin][dataVector.id]
        width == s.fInputHistograms.error[bin][dataVector.id]
        groupweight == GainEqualization_GroupWeight(c, s, bin, dataVector.id)
    IN  CASE c.fEqualizationMethod = "NONE" -> dataVector.w
          [] ~BinContentValidated(s.fInputHistograms, bin) -> dataVector.w
          [] ~DLess(fMinimumSignificantValue, average) -> dataVector.w
          [] c.fEqualizationMethod = "AVERAGE" ->
               DMul(DDiv(dataVector.w, average), groupweight)
          [] OTHER ->
               DMul(DAdd(D(GAINEQUALIZATION_SHIFTDEFAULT),
                         DDiv(DMul(D(GAINEQUALIZATION_SCALEDEFAULT),
                                   DSub(dataVector.w, average)), width)),
                    groupweight)

\* mutant: the group weight is left out of the equalized weight
GainEqualization_EqualizedWeight_NoGroupWeight(c, s, bin, dataVector) ==
    LET average == s.fInputHistograms.content[bin][dataVector.id]
        width == s.fInputHistograms.error[bin][dataVector.id]
    IN  CASE c.fEqualizationMethod = "NONE" -> dataVector.w
          [] ~BinContentValidated(s.fInputHistograms, bin) -> dataVector.w
          [] ~DLess(fMinimumSignificantValue, average) -> D(0)
          [] c.fEqualizationMethod = "AVERAGE" -> DDiv(dataVector.w, average)
          [] OTHER ->
               DAdd(D(GAINEQUALIZATION_SHIFTDEFAULT),
                    DDiv(DMul(D(GAINEQUALIZATION_SCALEDEFAULT),
                              DSub(dataVector.w, average)), width))

\* the new equalized weight of one data vector
GainEqualization_EqualizedWeight(c, s, bin, dataVector) ==
    LET average == s.fInputHistograms.content[bin][dataVector.id]
        width == s.fInputHistograms.error[bin][dataVector.id]
        groupweight == GainEqualization_GroupWeight(c, s, bin, dataVector.id)
    IN  CASE c.fEqualizationMethod = "NONE" -> dataVector.w
          [] ~BinContentValidated(s.fInputHistograms, bin) -> dataVector.w
          [] ~DLess(fMinimumSignificantValue, average) -> D(0)
          [] c.fEqualizationMethod = "AVERAGE" ->
               DMul(DDiv(dataVector.w, average), groupweight)
          [] OTHER ->
               DMul(DAdd(D(GAINEQUALIZATION_SHIFTDEFAULT),
                         DDiv(DMul(D(GAINEQUALIZATION_SCALEDEFAULT),
                                   DSub(dataVector.w, average)), width)),
                    groupweight)

\* mutant: a call on a bin that is not validated fills the not validated
\* histogram once
GainEqualization_Equalize_FillsOnce(c, s, ev) ==
    [s EXCEPT !.fDataVectorBank =
                 [i \in 1..Len(s.fDataVectorBank) |->
                     [s.fDataVectorBank[i] EXCEPT
                         !.w = IF BinContentValidated(s.fInputHistograms, ev.bin)
                                  /\ c.fEqualizationMethod # "NONE"
                               THEN D(0) ELSE @]],
              !.fQANotValidatedBin =
                 IF c.fEqualizationMethod # "NONE"
                    /\ ~BinContentValidated(s.fInputHistograms, ev.bin)
                 THEN @ + 1 ELSE @]

\* the switch on fEqualizationMethod: the equalized weights are stored in the
\* bank, and a data vector whose bin is not validated fills the not validated
\* histogram (methods AVERAGE and WIDTH)
GainEqualization_Equalize(c, s, ev) ==
    [s EXCEPT !.fDataVectorBank =
                 [i \in 1..Len(s.fDataVectorBank) |->
                     [s.fDataVectorBank[i] EXCEPT
                         !.w = GainEqualization_EqualizedWeight(c, s, ev.bin, s.fDataVectorBank[i])]],
              !.fQANotValidatedBin =
                 IF c.fEqualizationMethod # "NONE"
                    /\ ~BinContentValidated(s.fInputHistograms, ev.bin)
                 THEN @ + Len(s.fDataVectorBank) ELSE @]

GainEqualization_Collect(s, ev) ==
    [s EXCEPT !.fCalibrationHistograms =
                 GainEqualization_FillBank(@, ev.bin, s.fDataVectorBank, 1)]

\* mutant: in APPLYCOLLECT the equalized weights are collected after they
\* were equalized
GainEqualization_ProcessCorrections_CollectsAfter(c, s, ev) ==
    CASE s.fState = "CALIBRATION" -> [GainEqualization_Collect(s, ev) EXCEPT !.ret = kFALSE]
      [] s.fState = "APPLYCOLLECT" ->
           [GainEqualization_Collect(GainEqualization_Equalize(c, s, ev), ev) EXCEPT
               !.fQAEntries = @ + 2, !.ret = kTRUE]
      [] s.fState = "APPLY" ->
           [GainEqualization_Equalize(c, s, ev) EXCEPT !.fQAEntries = @ + 2, !.ret = kTRUE]
      [] OTHER -> [s EXCEPT !.ret = kFALSE]

\* src/Correction
GainEqualization_ProcessCorrections(c, s, ev) ==
    CASE s.fState = "CALIBRATION" -> [GainEqualization_Collect(s, ev) EXCEPT !.ret = kFALSE]
      [] s.fState = "APPLYCOLLECT" ->
           [GainEqualization_Equalize(c, GainEqualization_Collect(s, ev), ev) EXCEPT
               !.fQAEntries = @ + 2, !.ret = kTRUE]
      [] s.fState = "APPLY" ->
           [GainEqualization_Equalize(c, s, ev) EXCEPT !.fQAEntries = @ + 2, !.ret = kTRUE]
      [] OTHER -> [s EXCEPT !.ret = kFALSE]

\* src/QnCorrections
GainEqualizationQn_ProcessCorrections(c, s, ev) ==
    CASE s.fState = "CALIBRATION" -> [GainEqualization_Collect(s, ev) EXCEPT !.ret = kFALSE]
      [] s.fState = "APPLYCOLLECT" ->
           [GainEqualization_Equalize(c, GainEqualization_Collect(s, ev), ev) EXCEPT
               !.fQAEntries = @ + 2, !.ret = kTRUE]
      [] s.fState = "APPLY" ->
           [GainEqualization_Equalize(c, s, ev) EXCEPT !.fQAEntries = @ + 2, !.ret = kTRUE]
      [] OTHER -> [s EXCEPT !.ret = kFALSE]

\* mutant: the data collection call fills the calibration histograms
GainEqualization_ProcessDataCollection_Collects(c, s, ev) ==
    CASE s.fState = "CALIBRATION" -> [GainEqualization_Collect(s, ev) EXCEPT !.ret = kFALSE]
      [] s.fState = "APPLYCOLLECT" -> [GainEqualization_Collect(s, ev) EXCEPT !.ret = kTRUE]
      [] s.fState = "APPLY" -> [s EXCEPT !.ret = kTRUE]
      [] OTHER -> [s EXCEPT !.ret = kFALSE]

\* src/Correction
GainEqualization_ProcessDataCollection(c, s, ev) ==
    CASE s.fState = "CALIBRATION" -> [s EXCEPT !.ret = kFALSE]
      [] s.fState \in {"APPLYCOLLECT", "APPLY"} -> [s EXCEPT !.ret = kTRUE]
      [] OTHER -> [s EXCEPT !.ret = kFALSE]

\* src/QnCorrections
GainEqualizationQn_ProcessDataCollection(c, s, ev) ==
    CASE s.fState = "CALIBRATION" -> [s EXCEPT !.ret = kFALSE]
      [] s.fState \in {"APPLYCOLLECT", "APPLY"} -> [s EXCEPT !.ret = kTRUE]
      [] OTHER -> [s EXCEPT !.ret = kFALSE]

GainEqualization_ReportUsage(c, s) ==
    CASE s.fState = "CALIBRATION" ->
           [s EXCEPT !.out = Lists2(<<"Gain equalization">>, <<>>), !.ret = kFALSE]
      [] s.fState = "APPLYCOLLECT" ->
           [s EXCEPT !.out = Lists2(<<"Gain equalization">>, <<"Gain equalization">>), !.ret = kTRUE]
      [] s.fState = "APPLY" ->
           [s EXCEPT !.out = Lists2(<<>>, <<"Gain equalization">>), !.ret = kTRUE]
      [] OTHER -> [s EXCEPT !.out = Lists2(<<>>, <<>>), !.ret = kFALSE]

(***************************************************************************)
(* Steps whose handler is not overridden in the sources of the step: the   *)
(* step does nothing                                                       *)
(***************************************************************************)
CorrectionStep_AfterInputsAttachActions(c, s) ==
    [s EXCEPT !.ret = void]

CorrectionStep_ClearCorrectionStep(c, s) ==
    [s EXCEPT !.ret = void]

(***************************************************************************)
(* The virtual calls of CorrectionStep, dispatched on the type of the step *)
(***************************************************************************)
AttachInput(c, s, list) ==
    CASE c.kind = "Recentering" -> Recentering_AttachInput(c, s, list)
      [] c.kind = "TwistAndRescale" -> TwistAndRescale_AttachInput(c, s, list)
      [] c.kind = "GainEqualization" -> GainEqualization_AttachInput(c, s, list)
      [] OTHER -> GainEqualizationQn_AttachInput(c, s, list)

AfterInputsAttachActions(c, s, bApplied) ==
    IF c.kind = "TwistAndRescale"
    THEN TwistAndRescale_AfterInputsAttachActions(c, s, bApplied)
    ELSE CorrectionStep_AfterInputsAttachActions(c, s)

ProcessCorrections(c, s, ev) ==
    CASE c.kind = "Recentering" -> Recentering_ProcessCorrections(c, s, ev)
      [] c.kind = "TwistAndRescale" -> TwistAndRescale_ProcessCorrections(c, s, ev)
      [] c.kind = "GainEqualization" -> GainEqualization_ProcessCorrections(c, s, ev)
      [] OTHER -> GainEqualizationQn_ProcessCorrections(c, s, ev)

ProcessDataCollection(c, s, ev) ==
    CASE c.kind = "Recentering" -> Recentering_ProcessDataCollection(c, s, ev)
      [] c.kind = "TwistAndRescale" -> TwistAndRescale_ProcessDataCollection(c, s, ev)
      [] c.kind = "GainEqualization" -> GainEqualization_ProcessDataCollection(c, s, ev)
      [] OTHER -> GainEqualizationQn_ProcessDataCollection(c, s, ev)

ClearCorrectionStep(c, s) ==
    CASE c.kind = "Recentering" -> Recentering_ClearCorrectionStep(c, s)
      [] c.kind = "TwistAndRescale" -> TwistAndRescale_ClearCorrectionStep(c, s)
      [] OTHER -> CorrectionStep_ClearCorrectionStep(c, s)

ReportUsage(c, s) ==
    CASE c.kind = "Recentering" -> Recentering_ReportUsage(c, s)
      [] c.kind = "TwistAndRescale" -> TwistAndRescale_ReportUsage(c, s)
      [] OTHER -> GainEqualization_ReportUsage(c, s)

\* the configuration of the "Twist and Rescale" step of the reference sub-event B
BConfiguration ==
    [kind |-> "TwistAndRescale", fApplyWidthEqualization |-> FALSE,
     fTwistAndRescaleMethod |-> "TWRESCALE_doubleHarmonic",
     fApplyTwist |-> TRUE, fApplyRescale |-> TRUE,
     fEqualizationMethod |-> "NONE", fUseChannelGroupsWeights |-> FALSE,
     hardCodedGroupWeights |-> FALSE]

\* SubEvent::IsCorrectionStepBeingApplied("Twist") of the reference sub-event B,
\* whose twist step is in state bState
IsCorrectionStepBeingApplied(bState) ==
    TwistAndRescale_IsBeingApplied(NewStep(bState))

(***************************************************************************)
(* A sub-event and its ordered correction steps.  corrections holds, in    *)
(* the order they are processed, the input data corrections (channels      *)
(* only) followed by the Qn vector corrections, each with its              *)
(* configuration c and its step record s.  cur is the current Qn vector of *)
(* the sub-event: the plain one (stage 0) or the named vector of a stage.  *)
(* list is the list last offered to AttachCorrectionInputs, called tells   *)
(* on which stages that call called AttachInput, ret is what it returned.  *)
(***************************************************************************)
\* a call enters with no value returned yet
Call(s) ==
    [s EXCEPT !.ret = void, !.out = NoOut]

NoSubEvent ==
    [kind |-> "none", corrections |-> <<>>, cur |-> [stage |-> 0, name |-> "plain"],
     list |-> [entry |-> FALSE, found |-> <<>>], called |-> <<>>, ret |-> void]

StepConfiguration(kind, method) ==
    [kind |-> kind, fApplyWidthEqualization |-> FALSE,
     fTwistAndRescaleMethod |-> "TWRESCALE_doubleHarmonic",
     fApplyTwist |-> TRUE, fApplyRescale |-> TRUE,
     fEqualizationMethod |-> method, fUseChannelGroupsWeights |-> FALSE,
     hardCodedGroupWeights |-> FALSE]

NewSubEvent(kind, configurations) ==
    [NoSubEvent EXCEPT
        !.kind = kind,
        !.corrections = [i \in 1..Len(configurations) |->
                            [c |-> configurations[i], s |-> NewStep("CALIBRATION")]],
        !.list = [entry |-> FALSE, found |-> [i \in 1..Len(configurations) |-> FALSE]],
        !.called = [i \in 1..Len(configurations) |-> FALSE]]

\* a tracks sub-event with recentering and twist and rescale, a channels
\* sub-event with gain equalization and recentering
SubEvents ==
    {NewSubEvent("SubEventTracks", <<StepConfiguration("Recentering", "NONE"),
                                     StepConfiguration("TwistAndRescale", "NONE")>>),
     NewSubEvent("SubEventChannels", <<StepConfiguration("GainEqualization", "AVERAGE"),
                                       StepConfiguration("Recentering", "NONE")>>)}

\* the lists offered to a sub-event: the entry of the detector is in the list
\* or not, and the entry holds the histograms of each step or not
SubEventLists(se) ==
    [entry : BOOLEAN, found : [1..Len(se.corrections) -> BOOLEAN]]

\* detectorConfigurationList as the step c at position i sees it
StepList(c, list, i) ==
    IF list.found[i] THEN [found |-> TRUE, table |-> TableOf(c)]
    ELSE [found |-> FALSE, table |-> NoTable]

\* the loop of SubEventTracks::AttachCorrectionInputs:
\*   retValue = retValue && correction->AttachInput(detectorConfigurationList)
RECURSIVE SubEventTracks_AttachLoop(_, _, _, _)
SubEventTracks_AttachLoop(se, list, i, retValue) ==
    IF i > Len(se.corrections)
    THEN [se EXCEPT !.ret = IF retValue THEN kTRUE ELSE kFALSE]
    ELSE IF retValue
         THEN LET st == se.corrections[i]
                  s1 == AttachInput(st.c, Call(st.s), StepList(st.c, list, i))
              IN  SubEventTracks_AttachLoop(
                      [se EXCEPT !.corrections[i].s = Call(s1), !.called[i] = TRUE],
                      list, i + 1, s1.ret = kTRUE)
         ELSE SubEventTracks_AttachLoop(se, list, i + 1, FALSE)

SubEventTracks_AttachCorrectionInputs(se, list) ==
    LET se0 == [se EXCEPT !.list = list, !.called = [i \in DOMAIN se.called |-> FALSE]]
    IN  IF list.entry
        THEN SubEventTracks_AttachLoop(se0, list, 1, TRUE)
        ELSE [se0 EXCEPT !.ret = kFALSE]

\* the loops of SubEventChannels::AttachCorrectionInputs
RECURSIVE SubEventChannels_AttachLoop(_, _, _)
SubEventChannels_AttachLoop(se, list, i) ==
    IF i > Len(se.corrections)
    THEN se
    ELSE LET st == se.corrections[i]
             s1 == AttachInput(st.c, Call(st.s), StepList(st.c, list, i))
         IN  SubEventChannels_AttachLoop(
                 [se EXCEPT !.corrections[i].s = Call(s1), !.called[i] = TRUE], list, i + 1)

SubEventChannels_AttachCorrectionInputs(se, list) ==
    LET se0 == [se EXCEPT !.list = list, !.called = [i \in DOMAIN se.called |-> FALSE],
                          !.ret = void]
    IN  IF list.entry
        THEN SubEventChannels_AttachLoop(se0, list, 1)
        ELSE se0

AttachCorrectionInputs(se, list) ==
    IF se.kind = "SubEventTracks"
    THEN SubEventTracks_AttachCorrectionInputs(se, list)
    ELSE SubEventChannels_AttachCorrectionInputs(se, list)

\* SubEventTracks::AfterInputsAttachActions, SubEventChannels::AfterInputsAttachActions
SubEvent_AfterInputsAttachActions(se, bApplied) ==
    [se EXCEPT !.corrections =
        [i \in DOMAIN se.corrections |->
            [c |-> se.corrections[i].c,
             s |-> Call(AfterInputsAttachActions(se.corrections[i].c,
                                                 Call(se.corrections[i].s), bApplied))]]]

\* mutant: ReportUsage is called on every step of the sub-event
RECURSIVE SubEvent_ReportLoop_AsksAll(_, _, _, _)
SubEvent_ReportLoop_AsksAll(se, i, keepIncorporating, lists) ==
    IF i > Len(se.corrections)
    THEN [se |-> se, out |-> lists]
    ELSE LET st == se.corrections[i]
             s1 == ReportUsage(st.c, Call(st.s))
         IN  SubEvent_ReportLoop_AsksAll(
                 [se EXCEPT !.corrections[i].s = Call(s1)], i + 1, s1.ret = kTRUE,
                 Lists2(lists.calibrationList \o s1.out.calibrationList,
                        lists.applyList \o s1.out.applyList))

\* the loops of SubEventTracks::ReportOnCorrections and of
\* SubEventChannels::ReportOnCorrections: ReportUsage is called on the steps in
\* their order while every step before reported that it is being applied;
\* lists holds mycalib and myapply
RECURSIVE SubEvent_ReportLoop(_, _, _, _)
SubEvent_ReportLoop(se, i, keepIncorporating, lists) ==
    IF i > Len(se.corrections)
    THEN [se |-> se, out |-> lists]
    ELSE IF keepIncorporating
         THEN LET st == se.corrections[i]
                  s1 == ReportUsage(st.c, Call(st.s))
              IN  SubEvent_ReportLoop(
                      [se EXCEPT !.corrections[i].s = Call(s1)], i + 1, s1.ret = kTRUE,
                      Lists2(lists.calibrationList \o s1.out.calibrationList,
                             lists.applyList \o s1.out.applyList))
         ELSE SubEvent_ReportLoop(se, i + 1, FALSE, lists)

\* CorrectionStep::GetName
CorrectionName(c) ==
    CASE c.kind = "Recentering" -> "Recentering and width equalization"
      [] c.kind = "TwistAndRescale" -> "Twist and Rescale"
      [] OTHER -> "Gain equalization"

\* out.list holds mysteps, the name of every correction step of the sub-event
SubEvent_ReportOnCorrections(se) ==
    LET r == SubEvent_ReportLoop(se, 1, TRUE, Lists2(<<>>, <<>>))
    IN  [se |-> r.se,
         out |-> [r.out EXCEPT !.list = [i \in 1..Len(se.corrections) |->
                                            CorrectionName(se.corrections[i].c)]]]

\* Recentering::IncludeCorrectedQnVector: the recentered vector while the step
\* is applied
Recentering_IncludeCorrectedQnVector(c, s) ==
    [s EXCEPT !.out = [NoOut EXCEPT !.list =
                          IF s.fState \in {"APPLYCOLLECT", "APPLY"} THEN <<"rec">> ELSE <<>>],
              !.ret = void]

IncludeCorrectedQnVector(c, s) ==
    CASE c.kind = "Recentering" -> Recentering_IncludeCorrectedQnVector(c, s)
      [] c.kind = "TwistAndRescale" -> TwistAndRescale_IncludeCorrectedQnVector(c, s)

\* the vectors the Qn vector corrections from position i on include; the
\* input data corrections own no Qn vector and are not asked
RECURSIVE IncludeLoop(_, _)
IncludeLoop(se, i) ==
    IF i > Len(se.corrections) THEN <<>>
    ELSE (IF se.corrections[i].c.kind = "GainEqualization" THEN <<>>
          ELSE IncludeCorrectedQnVector(se.corrections[i].c,
                                        Call(se.corrections[i].s)).out.list)
         \o IncludeLoop(se, i + 1)

\* SubEventTracks::IncludeQnVectors: fCorrectedQnVector, fPlainQnVector and
\* then the vectors of the correction steps
SubEventTracks_IncludeQnVectors(se) ==
    <<"corrected", "plain">> \o IncludeLoop(se, 1)

\* SubEventChannels::IncludeQnVectors: RAW, PLAIN and then the vectors of the
\* correction steps
SubEventChannels_IncludeQnVectors(se) ==
    <<"raw", "plain">> \o IncludeLoop(se, 1)

SubEvent_IncludeQnVectors(se) ==
    CASE se.kind = "SubEventTracks" -> SubEventTracks_IncludeQnVectors(se)
      [] se.kind = "SubEventChannels" -> SubEventChannels_IncludeQnVectors(se)

\* the vector the current Qn vector pointer of the sub-event points to
SubEvent_GetCurrentQnVector(se, e) ==
    IF se.cur.stage = 0 THEN e.plain
    ELSE GetCurrentQnVector(
             [se.corrections[se.cur.stage].s EXCEPT !.fCurrentQnVector = se.cur.name], e)

\* the step record of stage i as its handlers see it: the current Qn vector
\* pointer names one of its own vectors or, read through the event, the
\* vector of the stage that owns it
StepOf(se, i) ==
    [Call(se.corrections[i].s) EXCEPT
        !.fCurrentQnVector = IF se.cur.stage = i THEN se.cur.name ELSE "plain"]

EventOf(se, i, e) ==
    IF se.cur.stage = i THEN e ELSE [e EXCEPT !.plain = SubEvent_GetCurrentQnVector(se, e)]

\* the sub-event after the call on stage i left the step record s1
AfterStep(se, i, s1) ==
    [se EXCEPT !.corrections[i].s = [Call(s1) EXCEPT !.fCurrentQnVector = "plain"],
               !.cur = IF s1.fCurrentQnVector = "plain" THEN @
                       ELSE [stage |-> i, name |-> s1.fCurrentQnVector]]

(***************************************************************************)
(* Two passes over one set of events: in the first the step collects, then *)
(* the calibration histograms it filled are persisted and offered as its   *)
(* input, in the second the events are processed again.                    *)
(***************************************************************************)
NoRun ==
    [pass |-> 0, bin |-> 1, events |-> <<>>, corrected |-> <<>>]

\* the Recentering without width equalization
RecenteringConfiguration ==
    [kind |-> "Recentering", fApplyWidthEqualization |-> FALSE,
     fTwistAndRescaleMethod |-> "TWRESCALE_doubleHarmonic",
     fApplyTwist |-> TRUE, fApplyRescale |-> TRUE,
     fEqualizationMethod |-> "NONE", fUseChannelGroupsWeights |-> FALSE,
     hardCodedGroupWeights |-> FALSE]

\* the events of a pass: good events of the bin of the run, whose plain Qn
\* vectors differ
PassEvents(bin) ==
    {[Event(bin, TRUE, TRUE, TRUE) EXCEPT !.plain = GoodVector(seed)] : seed \in {0, 1, 3}}

\* the sum and the number of the entries of one profile bin
RECURSIVE ProfileSum(_, _, _, _)
ProfileSum(fills, key, bin, i) ==
    IF i > Len(fills) THEN D(0)
    ELSE DAdd(IF fills[i].key = key /\ fills[i].bin = bin THEN fills[i].val ELSE D(0),
              ProfileSum(fills, key, bin, i + 1))

RECURSIVE ProfileEntries(_, _, _, _)
ProfileEntries(fills, key, bin, i) ==
    IF i > Len(fills) THEN 0
    ELSE (IF fills[i].key = key /\ fills[i].bin = bin THEN 1 ELSE 0)
            + ProfileEntries(fills, key, bin, i + 1)

\* GetXBinContent, GetYBinContent of the persisted profile: the mean of the
\* entries of the bin
ProfileMean(fills, key, bin) ==
    IF ProfileEntries(fills, key, bin, 1) = 0 THEN D(0)
    ELSE DDiv(ProfileSum(fills, key, bin, 1), D(ProfileEntries(fills, key, bin, 1)))

\* the calibration histograms a Recentering filled, as the next pass finds
\* them in its input (the widths are not read without width equalization)
PersistedTable(fills) ==
    [entries |-> [b \in Bins |-> ProfileEntries(fills, <<"X", GetFirstHarmonic>>, b, 1)],
     x |-> [b \in Bins |-> [h \in Harmonics |-> ProfileMean(fills, <<"X", h>>, b)]],
     y |-> [b \in Bins |-> [h \in Harmonics |-> ProfileMean(fills, <<"Y", h>>, b)]],
     xerr |-> [b \in Bins |-> [h \in Harmonics |-> D(1)]],
     yerr |-> [b \in Bins |-> [h \in Harmonics |-> D(1)]]]

\* the step as an event finds it: cleared, the plain Qn vector of the event
\* being the current one
ClearedStep(c, s) ==
    [ClearCorrectionStep(c, Call(s)) EXCEPT !.fCurrentQnVector = "plain"]

(***************************************************************************)
(* Profile: the entry of a calibration table.  A Profile is the record of  *)
(* its members; error_ is kept as Statistics::Sigma computes it, with the  *)
(* square root of this model.                                              *)
(***************************************************************************)
\* the members as their default initializers leave them
Profile_Default ==
    [mean_ |-> D(0), sum_ |-> D(0), sum2_ |-> D(0), entries_ |-> 0,
     binentries_ |-> D(0), error_ |-> D(0), mult_weight_ |-> D(1)]

\* Profile(mean, sum, sum2, error, entries, binentries)
Profile_Profile(mean, sum, sum2, error, entries, binentries) ==
    [mean_ |-> mean, sum_ |-> sum, sum2_ |-> sum2, entries_ |-> entries,
     binentries_ |-> binentries, error_ |-> error, mult_weight_ |-> D(entries)]

\* Statistics::Sigma(mean, sum2, n)
Sigma(mean, sum2, n) ==
    LET variance == DAbs(DSub(DDiv(sum2, D(n)), DMul(mean, mean)))
    IN  DDiv(DSqrt(variance), DSqrt(D(n)))

\* Profile::Update(value)
Profile_Update(p, value) ==
    LET sum == DAdd(p.sum_, value)
        entries == p.entries_ + 1
        mean == DDiv(sum, D(entries))
        sum2 == DAdd(p.sum2_, DMul(value, value))
    IN  [mean_ |-> mean, sum_ |-> sum, sum2_ |-> sum2, entries_ |-> entries,
         binentries_ |-> DAdd(p.binentries_, D(1)),
         error_ |-> Sigma(mean, sum2, entries), mult_weight_ |-> D(1)]

\* Profile::Update(value, mult_weight)
Profile_UpdateWeighted(p, value, mult_weight) ==
    LET sum == DAdd(p.sum_, value)
        multsum == DAdd(DMul(p.mult_weight_, D(p.entries_)), mult_weight)
        entries == p.entries_ + 1
        mean == DDiv(sum, D(entries))
        sum2 == DAdd(p.sum2_, DMul(value, value))
    IN  [mean_ |-> mean, sum_ |-> sum, sum2_ |-> sum2, entries_ |-> entries,
         binentries_ |-> DAdd(p.binentries_, D(1)),
         error_ |-> Sigma(mean, sum2, entries),
         mult_weight_ |-> DDiv(multsum, D(entries))]

\* Qn::Merge(a, b): the Profile is built by the constructor of six arguments,
\* whose sixth is binentries
Merge(a, b) ==
    LET nentries == a.entries_ + b.entries_
        nsum == DAdd(a.sum_, b.sum_)
        nmean == DDiv(nsum, D(nentries))
        nsum2 == DAdd(a.sum2_, b.sum2_)
        mult_weight == DDiv(DAdd(DMul(a.mult_weight_, D(a.entries_)),
                                 DMul(b.mult_weight_, D(b.entries_))),
                            D(a.entries_ + b.entries_))
        nerror == Sigma(nmean, nsum2, nentries)
    IN  Profile_Profile(nmean, nsum, nsum2, nerror, nentries, mult_weight)

\* the calls of Update a Profile is fed: Update(value) and Update(value, mult_weight)
ProfileUpdates ==
    {[value |-> D(1), weighted |-> FALSE, mult_weight |-> D(1)],
     [value |-> D(2), weighted |-> FALSE, mult_weight |-> D(1)],
     [value |-> D(2), weighted |-> TRUE, mult_weight |-> D(3)]}

ApplyUpdate(p, u) ==
    IF u.weighted THEN Profile_UpdateWeighted(p, u.value, u.mult_weight)
    ELSE Profile_Update(p, u.value)

\* the Profile p after the calls of the sequence from position i on
RECURSIVE Feed(_, _, _)
Feed(p, updates, i) ==
    IF i > Len(updates) THEN p ELSE Feed(ApplyUpdate(p, updates[i]), updates, i + 1)

ProfileNames ==
    {"a", "b", "c"}

\* three Profiles, the calls each was fed, and the Profiles the last merge made
NoMerge ==
    [done |-> FALSE, ab |-> Profile_Default, ba |-> Profile_Default,
     ab_c |-> Profile_Default, a_bc |-> Profile_Default]

NoProfiles ==
    [p |-> [n \in ProfileNames |-> Profile_Default],
     fed |-> [n \in ProfileNames |-> <<>>],
     merged |-> NoMerge]

(***************************************************************************)
(* The set-up of a twist and rescale step: the names of its reference      *)
(* detector configurations B and C, the configurations found for them      *)
(* ("nullptr": none), the phase the set-up has reached and its outcome     *)
(* ("error": the set-up was stopped, "crash": a null pointer was           *)
(* dereferenced and the process ended).                                    *)
(***************************************************************************)
\* the detector configurations the manager holds
DetectorConfigurations ==
    {"B", "C"}

\* the names a reference may be given: none, one the manager does not hold,
\* one it holds
ReferenceNames ==
    {"", "unknown"} \cup DetectorConfigurations

NoSetup ==
    [phase |-> "none", fBDetectorConfigurationName |-> "", fCDetectorConfigurationName |-> "",
     fBDetectorConfiguration |-> "nullptr", fCDetectorConfiguration |-> "nullptr",
     outcome |-> "ok"]

\* TwistAndRescale::TwistAndRescale
NewSetup ==
    [NoSetup EXCEPT !.phase = "new"]

\* CorrectionsManager::FindDetectorConfiguration
FindDetectorConfiguration(name) ==
    IF name \in DetectorConfigurations THEN name ELSE "nullptr"

TwistAndRescale_SetReferenceConfigurationsForTwistAndRescale(t, nameB, nameC) ==
    [t EXCEPT !.fBDetectorConfigurationName = nameB, !.fCDetectorConfigurationName = nameC]

\* the reference detector configurations are looked for; a missing or a wrong
\* name is not reported (the calls that reported it are commented out)
TwistAndRescale_CreateSupportDataStructures(c, t) ==
    CASE c.fTwistAndRescaleMethod = "TWRESCALE_doubleHarmonic" -> [t EXCEPT !.phase = "structures"]
      [] c.fTwistAndRescaleMethod = "TWRESCALE_correlations" ->
           [t EXCEPT !.phase = "structures",
                     !.fBDetectorConfiguration =
                         IF t.fBDetectorConfigurationName # ""
                            /\ FindDetectorConfiguration(t.fBDetectorConfigurationName) # "nullptr"
                         THEN FindDetectorConfiguration(t.fBDetectorConfigurationName) ELSE @,
                     !.fCDetectorConfiguration =
                         IF t.fCDetectorConfigurationName # ""
                            /\ FindDetectorConfiguration(t.fCDetectorConfigurationName) # "nullptr"
                         THEN FindDetectorConfiguration(t.fCDetectorConfigurationName) ELSE @]
      [] OTHER -> [t EXCEPT !.phase = "structures"]

\* the step dereferences one of its reference detector configurations while it
\* is the null pointer
NullReference(c, t) ==
    /\ c.fTwistAndRescaleMethod = "TWRESCALE_correlations"
    /\ t.fBDetectorConfiguration = "nullptr" \/ t.fCDetectorConfiguration = "nullptr"

\* the outcomes of a call that dereferences a null pointer: the process ends
\* or the call goes on
Undefined ==
    {"crash", "ok"}

\* CreateSupportHistograms: the set of the set-ups the call can leave; the
\* correlations histograms are named after fBDetectorConfiguration->GetName()
\* and fCDetectorConfiguration->GetName()
TwistAndRescale_CreateSupportHistograms(c, t) ==
    IF NullReference(c, t)
    THEN {[t EXCEPT !.phase = "histograms", !.outcome = o] : o \in Undefined}
    ELSE {[t EXCEPT !.phase = "histograms"]}

(***************************************************************************)
(* The order of the correction steps.  A step is ordered by its priority   *)
(* key; the overall set of steps is a std::set ordered with CompareSteps,  *)
(* held here as the sequence its iteration yields.                         *)
(***************************************************************************)
MaxPriority == 2

StepNames ==
    {"a", "b"}

\* CorrectionStep(name, prio)
CorrectionSteps ==
    [fName : StepNames, fPriority : 0..MaxPriority]

\* a comparison that also holds between steps of equal priority
OperatorLess_OrEqual(lh, rh) ==
    lh.fPriority <= rh.fPriority

\* operator<(const CorrectionStep &lh, const CorrectionStep &rh)
OperatorLess(lh, rh) ==
    lh.fPriority < rh.fPriority

\* CompareSteps::operator()
CompareSteps(lh, rh) ==
    OperatorLess(lh, rh)

\* std::set<CorrectionStep *, CompareSteps>::insert: x is not inserted when the
\* set holds an element equivalent to it (neither compares before the other),
\* and otherwise goes after the elements that compare before it
SetInsert(set, x) ==
    IF \E k \in DOMAIN set : ~CompareSteps(set[k], x) /\ ~CompareSteps(x, set[k])
    THEN set
    ELSE LET n == Cardinality({k \in DOMAIN set : CompareSteps(set[k], x)})
         IN  SubSeq(set, 1, n) \o <<x>> \o SubSeq(set, n + 1, Len(set))

\* CorrectionsSet::FillOverallCorrectionsList: every step of the list of the
\* sub-event, from position i on, is inserted into the set
RECURSIVE FillOverallCorrectionsList(_, _, _)
FillOverallCorrectionsList(corrections, set, i) ==
    IF i > Len(corrections) THEN set
    ELSE FillOverallCorrectionsList(corrections, SetInsert(set, corrections[i]), i + 1)

\* SubEventTracks::FillOverallQnVectorCorrectionStepList
SubEventTracks_FillOverallQnVectorCorrectionStepList(fQnVectorCorrections, set) ==
    FillOverallCorrectionsList(fQnVectorCorrections, set, 1)

\* the lists of Qn vector corrections of a sub-event: one step or two
QnVectorCorrections ==
    {<<x>> : x \in CorrectionSteps} \cup {<<x, y>> : x \in CorrectionSteps, y \in CorrectionSteps}

NoOverall ==
    [set |-> <<>>, filled |-> <<>>]

(***************************************************************************)
(* Stats: a status, the option bits, a profile and its sub-samples         *)
(***************************************************************************)
\* Stats::Status
Status ==
    {"REFERENCE", "OBSERVABLE", "POINTAVERAGE"}

\* the option bits of a Stats: none, or CORRELATEDERRORS
StatsBits ==
    {"none", "CORRELATEDERRORS"}

\* a profile of n values 1..n of weight one
ProfileOfValues(n) ==
    [sumwy |-> (n * (n + 1)) \div 2, sumw |-> n]

\* Profile::MergeNormal: the sums of both profiles
Profile_MergeNormal(lhs, rhs) ==
    [sumwy |-> lhs.sumwy + rhs.sumwy, sumw |-> lhs.sumw + rhs.sumw]

\* Profile::MergePointAverage: the sums of both profiles
Profile_MergePointAverage(lhs, rhs) ==
    [sumwy |-> lhs.sumwy + rhs.sumwy, sumw |-> lhs.sumw + rhs.sumw]

\* SubSamples::MergeNormal: sample by sample
SubSamples_MergeNormal(lhs, rhs) ==
    [k \in DOMAIN lhs |-> Profile_MergeNormal(lhs[k], rhs[k])]

\* SubSamples::MergePointAverage: sample by sample
SubSamples_MergePointAverage(lhs, rhs) ==
    [k \in DOMAIN lhs |-> Profile_MergePointAverage(lhs[k], rhs[k])]

\* a default constructed Stats
DefaultStats ==
    [status_ |-> "REFERENCE", bits_ |-> "none", profile_ |-> ProfileOfValues(0),
     subsamples_ |-> <<ProfileOfValues(0), ProfileOfValues(0)>>]

\* a Stats filled with the values 1..n, every value in one of two sub-samples
StatsOfValues(status, bits, n) ==
    [status_ |-> status, bits_ |-> bits, profile_ |-> ProfileOfValues(n),
     subsamples_ |-> <<ProfileOfValues(n \div 2),
                       [sumwy |-> ProfileOfValues(n).sumwy - ProfileOfValues(n \div 2).sumwy,
                        sumw |-> n - (n \div 2)]>>]

\* Merge(Stats, Stats): the merge rules it applies, in the order of the code
Stats_MergeRules(lhs, rhs) ==
    (IF \/ (lhs.status_ = "REFERENCE" /\ rhs.status_ = "OBSERVABLE")
        \/ (lhs.status_ = "OBSERVABLE" /\ rhs.status_ = "REFERENCE")
        \/ (lhs.status_ = "REFERENCE" /\ rhs.status_ = "REFERENCE")
        \/ (lhs.status_ = "OBSERVABLE" /\ rhs.status_ = "OBSERVABLE")
     THEN <<"normal">> ELSE <<>>)
    \o (IF lhs.status_ = "POINTAVERAGE" \/ rhs.status_ = "POINTAVERAGE"
        THEN <<"pointaverage">> ELSE <<>>)

\* Merge(Stats, Stats): the result after the rules from the i-th on
RECURSIVE Stats_MergeApply(_, _, _, _, _)
Stats_MergeApply(lhs, rhs, rules, i, result) ==
    IF i > Len(rules) THEN result
    ELSE Stats_MergeApply(lhs, rhs, rules, i + 1,
             IF rules[i] = "normal"
             THEN [result EXCEPT
                     !.profile_ = Profile_MergeNormal(lhs.profile_, rhs.profile_),
                     !.subsamples_ = SubSamples_MergeNormal(lhs.subsamples_, rhs.subsamples_)]
             ELSE [result EXCEPT
                     !.profile_ = Profile_MergePointAverage(lhs.profile_, rhs.profile_),
                     !.subsamples_ = SubSamples_MergePointAverage(lhs.subsamples_,
                                                                  rhs.subsamples_)])

\* Merge(Stats, Stats)
Stats_Merge(lhs, rhs) ==
    [Stats_MergeApply(lhs, rhs, Stats_MergeRules(lhs, rhs), 1, DefaultStats) EXCEPT
        !.status_ = lhs.status_, !.bits_ = lhs.bits_]

\* the Stats that are merged
StatsValues ==
    {StatsOfValues(status, bits, n) : status \in Status, bits \in StatsBits, n \in 0..MaxUpdates}

NoStatsMerge ==
    [done |-> FALSE, rules |-> <<>>, lr |-> DefaultStats, rl |-> DefaultStats]

NoStats ==
    [lhs |-> DefaultStats, rhs |-> DefaultStats, merged |-> NoStatsMerge]

(***************************************************************************)
(* Correlation: the inputs are containers of Q-vectors over one axis; a    *)
(* container is given by its number of bins, its bin ibin holds the        *)
(* Q-vector [input, bin] and has the index <<ibin>>                        *)
(***************************************************************************)
MaxInputs ==
    3

MaxBins ==
    3

\* the bin ibin of the container at inputs_.begin() + iteration
BinOf(iteration, ibin) ==
    [input |-> iteration, bin |-> ibin]

\* DataContainer::GetIndex
DataContainer_GetIndex(ibin) ==
    <<ibin>>

\* the elements of the vectors of index, one after the other
RECURSIVE Cindex(_, _)
Cindex(index, i) ==
    IF i > Len(index) THEN <<>> ELSE index[i] \o Cindex(index, i + 1)

\* vector::erase(end() - k)
EraseFromEnd(v, k) ==
    SubSeq(v, 1, Len(v) - k) \o SubSeq(v, Len(v) - k + 2, Len(v))

\* Correlation::FillCorrelation, the last input: the bins from ibin on
RECURSIVE FillCorrelation_LastLoop(_, _, _, _, _)
FillCorrelation_LastLoop(inputs_, eventindex, iteration, ibin, st) ==
    IF ibin >= inputs_[iteration + 1] THEN [st EXCEPT !.index = <<>>]
    ELSE LET size == inputs_[iteration + 1]
             binindex == DataContainer_GetIndex(ibin)
             index1 == IF size # 1 THEN Append(st.index, binindex) ELSE st.index
             index2 == Append(index1, eventindex)
             cindex == Cindex(index2, 1)
             contents1 == Append(st.contents, BinOf(iteration, ibin))
             index3 == IF size # 1 THEN EraseFromEnd(index2, 2) ELSE index2
             erased == [index |-> EraseFromEnd(index3, 1),
                        contents |-> EraseFromEnd(contents1, 1),
                        calls |-> Append(st.calls, [cindex |-> cindex, contents |-> contents1])]
         IN  CHOOSE r \in {FillCorrelation_LastLoop(inputs_, eventindex, iteration, ibin + 1, s) :
                              s \in {erased}} : TRUE

\* Correlation::FillCorrelation; of an input before the last: the bins from ibin on
RECURSIVE FillCorrelation(_, _, _, _, _)
FillCorrelation(inputs_, eventindex, iteration, ibin, st) ==
    IF iteration + 1 = Len(inputs_)
    THEN FillCorrelation_LastLoop(inputs_, eventindex, iteration, 0, st)
    ELSE IF ibin >= inputs_[iteration + 1] THEN st
    ELSE LET size == inputs_[iteration + 1]
             binindex == DataContainer_GetIndex(ibin)
             pushed == [st EXCEPT
                          !.index = IF size # 1 THEN Append(st.index, binindex) ELSE st.index,
                          !.contents = Append(st.contents, BinOf(iteration, ibin))]
             filled == {FillCorrelation(inputs_, eventindex, iteration + 1, 0, s) :
                          s \in {pushed}}
         IN  CHOOSE r \in {FillCorrelation(inputs_, eventindex, iteration, ibin + 1, s) :
                              s \in filled} : TRUE

\* Correlation::Fill: the calls of the correlation function
Correlation_Fill(input, eventindex) ==
    FillCorrelation(input, eventindex, 0, 0,
                    [index |-> <<>>, contents |-> <<>>, calls |-> <<>>]).calls

\* the inputs of a Correlation: the number of bins of every container
CorrelationInputs ==
    UNION {[1..n -> 1..MaxBins] : n \in 1..MaxInputs}

NoCorrelation ==
    [inputs_ |-> <<1>>, filled |-> FALSE, eventindex |-> <<>>, calls |-> <<>>]

(***************************************************************************)
(* State                                                                   *)
(*   cfg       the configuration of the step (fixed at construction)       *)
(*   step      the step and the data of its sub-event                      *)
(*   ev        the event being processed                                   *)
(*   bState    fState of the twist step of the reference sub-event B       *)
(*   lastOp    the last call: its name, its argument, the value returned,  *)
(*             its output parameters, fState before the call, and whether  *)
(*             an AttachInput repeats the call before it                   *)
(*   hist      history: AttachInput was called on the step; the step has   *)
(*             been in APPLYCOLLECT or APPLY; AfterInputsAttachActions     *)
(*             found B not applying its twist                              *)
(*   nEvents, nCalls   events and per-event calls of the run so far        *)
(*   subEvent  a sub-event with its ordered correction steps (used by the  *)
(*             specification of the sub-event, NoSubEvent otherwise)       *)
(*   run       the two passes over one set of events (used by the          *)
(*             specification of the two passes, NoRun otherwise)           *)
(*   prof      three Profiles and their merges (used by the specification  *)
(*             of the Profile, NoProfiles otherwise)                       *)
(*   setup     the set-up of a twist and rescale step (used by the         *)
(*             specification of the set-up, NoSetup otherwise)             *)
(*   overall   the overall set of Qn vector corrections (used by the       *)
(*             specification of the order, NoOverall otherwise)            *)
(*   stats     two Stats and their merges (used by the specification of    *)
(*             the Stats, NoStats otherwise)                               *)
(*   corr      the inputs of a Correlation and the calls of its last Fill  *)
(*             (used by the specification of the Correlation,              *)
(*             NoCorrelation otherwise)                                    *)
(***************************************************************************)
VARIABLES cfg, step, ev, bState, lastOp, hist, nEvents, nCalls, subEvent, run, prof, setup,
          overall, stats, corr

vars ==
    <<cfg, step, ev, bState, lastOp, hist, nEvents, nCalls, subEvent, run, prof, setup,
      overall, stats, corr>>

Applying ==
    {"APPLYCOLLECT", "APPLY"}

Op(name, arg, before, after) ==
    [op |-> name, arg |-> arg, ret |-> after.ret, out |-> after.out, from |-> before.fState,
     repeat |-> name = "AttachInput" /\ lastOp.op = name /\ lastOp.arg = arg]

Record(after) ==
    hist' = [hist EXCEPT !.everApplied = @ \/ after.fState \in Applying]

Init ==
    /\ cfg \in Configurations
    /\ step = NewStep("CALIBRATION")
    /\ ev = NoEvent
    /\ bState = "CALIBRATION"
    /\ lastOp = [op |-> "new", arg |-> "-", ret |-> void, out |-> NoOut,
                 from |-> "CALIBRATION", repeat |-> FALSE]
    /\ hist = [attachCalled |-> FALSE, everApplied |-> FALSE, foundBNotApplied |-> FALSE]
    /\ nEvents = 0
    /\ nCalls = 0
    /\ subEvent = NoSubEvent
    /\ run = NoRun
    /\ prof = NoProfiles
    /\ setup = NoSetup
    /\ overall = NoOverall
    /\ stats = NoStats
    /\ corr = NoCorrelation

\* the handlers as functions of the state of the step: every state of the
\* State enumeration, a step in an applying state having its input attached
InitAnyState ==
    /\ cfg \in Configurations
    /\ \E st \in State :
          /\ step = [NewStep(st) EXCEPT
                        !.fInputHistograms = IF st \in Applying THEN TableOf(cfg) ELSE NoTable,
                        !.fHardCodedWeights =
                            IF st \in Applying /\ IsGainEqualization(cfg.kind)
                            THEN GetHardCodedGroupWeights(cfg) ELSE None]
          /\ lastOp = [op |-> "new", arg |-> "-", ret |-> void, out |-> NoOut,
                       from |-> st, repeat |-> FALSE]
          /\ hist = [attachCalled |-> st \in Applying, everApplied |-> st \in Applying,
                     foundBNotApplied |-> st = "PASSIVE"]
    /\ ev = NoEvent
    /\ bState = "CALIBRATION"
    /\ nEvents = 0
    /\ nCalls = 0
    /\ subEvent = NoSubEvent
    /\ run = NoRun
    /\ prof = NoProfiles
    /\ setup = NoSetup
    /\ overall = NoOverall
    /\ stats = NoStats
    /\ corr = NoCorrelation

\* SubEvent: the configuration is cleared (every step cleared, the bank emptied),
\* the data of the next event are stored and the plain Qn vector is built, which
\* becomes the current Qn vector
NewEvent ==
    /\ nEvents < MaxEvents
    /\ \E e \in Events(cfg) :
          /\ ev' = e
          /\ step' = [ClearCorrectionStep(cfg, Call(step)) EXCEPT
                         !.fCurrentQnVector = "plain", !.fDataVectorBank = e.bank]
    /\ lastOp' = Op("NewEvent", "-", step, step')
    /\ nEvents' = nEvents + 1
    /\ UNCHANGED <<overall, setup, prof, run, subEvent, cfg, bState, hist, nCalls, stats, corr>>

CallAttachInput ==
    /\ \E list \in Lists(cfg) :
          /\ step' = AttachInput(cfg, Call(step), list)
          /\ lastOp' = Op("AttachInput", IF list.found THEN "found" ELSE "notfound",
                          step, step')
    /\ hist' = [hist EXCEPT !.attachCalled = TRUE,
                            !.everApplied = @ \/ step'.fState \in Applying]
    /\ UNCHANGED <<overall, setup, prof, run, subEvent, cfg, ev, bState, nEvents, nCalls, stats, corr>>

CallAfterInputsAttachActions ==
    /\ step' = AfterInputsAttachActions(cfg, Call(step), IsCorrectionStepBeingApplied(bState))
    /\ lastOp' = Op("AfterInputsAttachActions", "-", step, step')
    /\ hist' = [hist EXCEPT !.foundBNotApplied =
                    @ \/ (IsCorrelations(cfg) /\ ~IsCorrectionStepBeingApplied(bState)),
                            !.everApplied = @ \/ step'.fState \in Applying]
    /\ UNCHANGED <<overall, setup, prof, run, subEvent, cfg, ev, bState, nEvents, nCalls, stats, corr>>

CallProcessCorrections ==
    /\ nCalls < MaxCalls
    /\ step' = ProcessCorrections(cfg, Call(step), ev)
    /\ lastOp' = Op("ProcessCorrections", "-", step, step')
    /\ nCalls' = nCalls + 1
    /\ Record(step')
    /\ UNCHANGED <<overall, setup, prof, run, subEvent, cfg, ev, bState, nEvents, stats, corr>>

CallProcessDataCollection ==
    /\ nCalls < MaxCalls
    /\ step' = ProcessDataCollection(cfg, Call(step), ev)
    /\ lastOp' = Op("ProcessDataCollection", "-", step, step')
    /\ nCalls' = nCalls + 1
    /\ Record(step')
    /\ UNCHANGED <<overall, setup, prof, run, subEvent, cfg, ev, bState, nEvents, stats, corr>>

CallClearCorrectionStep ==
    /\ step' = ClearCorrectionStep(cfg, Call(step))
    /\ lastOp' = Op("ClearCorrectionStep", "-", step, step')
    /\ Record(step')
    /\ UNCHANGED <<overall, setup, prof, run, subEvent, cfg, ev, bState, nEvents, nCalls, stats, corr>>

CallReportUsage ==
    /\ step' = ReportUsage(cfg, Call(step))
    /\ lastOp' = Op("ReportUsage", "-", step, step')
    /\ Record(step')
    /\ UNCHANGED <<overall, setup, prof, run, subEvent, cfg, ev, bState, nEvents, nCalls, stats, corr>>

CallIncludeCorrectedQnVector ==
    /\ cfg.kind = "TwistAndRescale"
    /\ step' = TwistAndRescale_IncludeCorrectedQnVector(cfg, Call(step))
    /\ lastOp' = Op("IncludeCorrectedQnVector", "-", step, step')
    /\ Record(step')
    /\ UNCHANGED <<overall, setup, prof, run, subEvent, cfg, ev, bState, nEvents, nCalls, stats, corr>>

\* AttachInput on the twist step of the reference sub-event B
BAttachInput ==
    /\ IsCorrelations(cfg)
    /\ \E list \in Lists(BConfiguration) :
          bState' = TwistAndRescale_AttachInput(BConfiguration, NewStep(bState), list).fState
    /\ UNCHANGED <<overall, setup, prof, run, subEvent, cfg, step, ev, lastOp, hist, nEvents, nCalls,
            stats, corr>>

Next ==
    \/ NewEvent
    \/ CallAttachInput
    \/ CallAfterInputsAttachActions
    \/ CallProcessCorrections
    \/ CallProcessDataCollection
    \/ CallClearCorrectionStep
    \/ CallReportUsage
    \/ CallIncludeCorrectedQnVector
    \/ BAttachInput

Spec ==
    Init /\ [][Next]_vars

SpecAnyState ==
    InitAnyState /\ [][Next]_vars

(***************************************************************************)
(* The specification of a sub-event with its ordered correction steps      *)
(***************************************************************************)
InitSubEvent ==
    /\ subEvent \in SubEvents
    /\ cfg = BConfiguration
    /\ step = NewStep("CALIBRATION")
    /\ ev = NoEvent
    /\ bState = "CALIBRATION"
    /\ lastOp = [op |-> "new", arg |-> "-", ret |-> void, out |-> NoOut,
                 from |-> "CALIBRATION", repeat |-> FALSE]
    /\ hist = [attachCalled |-> FALSE, everApplied |-> FALSE, foundBNotApplied |-> FALSE]
    /\ nEvents = 0
    /\ nCalls = 0
    /\ run = NoRun
    /\ prof = NoProfiles
    /\ setup = NoSetup
    /\ overall = NoOverall
    /\ stats = NoStats
    /\ corr = NoCorrelation

Stages ==
    DOMAIN subEvent.corrections

SubEventOp(name) ==
    [op |-> name, arg |-> "-", ret |-> subEvent'.ret, out |-> NoOut, from |-> "-",
     repeat |-> FALSE]

\* the next event of the sub-event: every step is cleared, the bank holds the
\* data of the event and the plain Qn vector is the current one
SubEventNewEvent ==
    /\ nEvents < MaxEvents
    /\ \E e \in Events(subEvent.corrections[1].c) :
          /\ ev' = e
          /\ subEvent' = [subEvent EXCEPT
                !.cur = [stage |-> 0, name |-> "plain"],
                !.corrections = [i \in DOMAIN subEvent.corrections |->
                    [c |-> subEvent.corrections[i].c,
                     s |-> [ClearCorrectionStep(subEvent.corrections[i].c,
                                                Call(subEvent.corrections[i].s)) EXCEPT
                               !.fDataVectorBank = e.bank]]]]
    /\ lastOp' = SubEventOp("NewEvent")
    /\ nEvents' = nEvents + 1
    /\ UNCHANGED <<overall, setup, prof, run, cfg, step, bState, hist, nCalls, stats, corr>>

SubEventAttachCorrectionInputs ==
    /\ \E list \in SubEventLists(subEvent) :
          subEvent' = AttachCorrectionInputs(subEvent, list)
    /\ lastOp' = SubEventOp("AttachCorrectionInputs")
    /\ UNCHANGED <<overall, setup, prof, run, cfg, step, ev, bState, hist, nEvents, nCalls, stats, corr>>

SubEventAfterInputsAttachActions ==
    /\ subEvent' = SubEvent_AfterInputsAttachActions(subEvent,
                                                     IsCorrectionStepBeingApplied(bState))
    /\ lastOp' = SubEventOp("AfterInputsAttachActions")
    /\ UNCHANGED <<overall, setup, prof, run, cfg, step, ev, bState, hist, nEvents, nCalls, stats, corr>>

\* ProcessCorrections of one step of the sub-event
StageProcessCorrections ==
    /\ nCalls < MaxCalls
    /\ \E i \in Stages :
          \E before \in {StepOf(subEvent, i)}, e \in {EventOf(subEvent, i, ev)} :
             \E after \in {ProcessCorrections(subEvent.corrections[i].c, before, e)} :
                /\ subEvent' = AfterStep(subEvent, i, after)
                /\ lastOp' = Op("ProcessCorrections", ToString(i), before, after)
    /\ nCalls' = nCalls + 1
    /\ UNCHANGED <<overall, setup, prof, run, cfg, step, ev, bState, hist, nEvents, stats, corr>>

\* ProcessDataCollection of one step of the sub-event
StageProcessDataCollection ==
    /\ nCalls < MaxCalls
    /\ \E i \in Stages :
          \E before \in {StepOf(subEvent, i)} :
             \E after \in {ProcessDataCollection(subEvent.corrections[i].c, before, ev)} :
                /\ subEvent' = AfterStep(subEvent, i, after)
                /\ lastOp' = Op("ProcessDataCollection", ToString(i), before, after)
    /\ nCalls' = nCalls + 1
    /\ UNCHANGED <<overall, setup, prof, run, cfg, step, ev, bState, hist, nEvents, stats, corr>>

\* ReportOnCorrections of the sub-event
SubEventReportOnCorrections ==
    /\ \E r \in {SubEvent_ReportOnCorrections(subEvent)} :
          /\ subEvent' = r.se
          /\ lastOp' = [SubEventOp("ReportOnCorrections") EXCEPT !.out = r.out]
    /\ UNCHANGED <<overall, setup, prof, run, cfg, step, ev, bState, hist, nEvents, nCalls, stats, corr>>

\* IncludeQnVectors of the sub-event
SubEventIncludeQnVectors ==
    /\ \E list \in {SubEvent_IncludeQnVectors(subEvent)} :
          lastOp' = [op |-> "IncludeQnVectors", arg |-> "-", ret |-> void,
                     out |-> [NoOut EXCEPT !.list = list], from |-> "-", repeat |-> FALSE]
    /\ UNCHANGED <<overall, setup, prof, run, cfg, step, ev, bState, hist, nEvents, nCalls, subEvent,
            stats, corr>>

NextSubEvent ==
    \/ SubEventNewEvent
    \/ SubEventIncludeQnVectors
    \/ SubEventReportOnCorrections
    \/ SubEventAttachCorrectionInputs
    \/ SubEventAfterInputsAttachActions
    \/ StageProcessCorrections
    \/ StageProcessDataCollection

SpecSubEvent ==
    InitSubEvent /\ [][NextSubEvent]_vars

(***************************************************************************)
(* The specification of the two passes of a Recentering                    *)
(***************************************************************************)
InitTwoPass ==
    /\ cfg = RecenteringConfiguration
    /\ step = NewStep("CALIBRATION")
    /\ ev = NoEvent
    /\ bState = "CALIBRATION"
    /\ lastOp = [op |-> "new", arg |-> "-", ret |-> void, out |-> NoOut,
                 from |-> "CALIBRATION", repeat |-> FALSE]
    /\ hist = [attachCalled |-> FALSE, everApplied |-> FALSE, foundBNotApplied |-> FALSE]
    /\ nEvents = 0
    /\ nCalls = 0
    /\ subEvent = NoSubEvent
    /\ \E bin \in Bins : run = [NoRun EXCEPT !.pass = 1, !.bin = bin]
    /\ prof = NoProfiles
    /\ setup = NoSetup
    /\ overall = NoOverall
    /\ stats = NoStats
    /\ corr = NoCorrelation

\* an event of the first pass: the step is cleared, the corrections are
\* processed and then the data collection
FirstPassEvent ==
    /\ run.pass = 1
    /\ Len(run.events) < MaxPassEvents
    /\ \E e \in PassEvents(run.bin) :
          /\ ev' = e
          /\ \E s0 \in {ClearedStep(cfg, step)} :
             \E s1 \in {ProcessCorrections(cfg, Call(s0), e)} :
             \E after \in {ProcessDataCollection(cfg, Call(s1), e)} :
                /\ step' = after
                /\ lastOp' = Op("ProcessEvent", "1", step, after)
          /\ run' = [run EXCEPT !.events = Append(@, e)]
    /\ UNCHANGED <<overall, setup, prof, cfg, bState, hist, nEvents, nCalls, subEvent, stats, corr>>

\* the end of the first pass and the start of the second: the step of the
\* second pass is offered the histograms the step of the first pass filled
AttachFirstPass ==
    /\ run.pass = 1
    /\ run.events # <<>>
    /\ \E table \in {PersistedTable(step.fCalibrationHistograms)} :
       \E after \in {AttachInput(cfg, Call(NewStep("CALIBRATION")),
                                  [found |-> TRUE, table |-> table])} :
          /\ step' = after
          /\ lastOp' = Op("AttachInput", "found", step, after)
    /\ run' = [run EXCEPT !.pass = 2]
    /\ UNCHANGED <<overall, setup, prof, cfg, ev, bState, hist, nEvents, nCalls, subEvent, stats, corr>>

\* the next event of the second pass: the events of the first pass in their order
SecondPassEvent ==
    /\ run.pass = 2
    /\ Len(run.corrected) < Len(run.events)
    /\ \E e \in {run.events[Len(run.corrected) + 1]} :
          /\ ev' = e
          /\ \E s0 \in {ClearedStep(cfg, step)} :
             \E s1 \in {ProcessCorrections(cfg, Call(s0), e)} :
             \E after \in {ProcessDataCollection(cfg, Call(s1), e)} :
                /\ step' = after
                /\ lastOp' = Op("ProcessEvent", "2", step, after)
                /\ run' = [run EXCEPT !.corrected =
                              Append(@, GetCurrentQnVector(after, e))]
    /\ UNCHANGED <<overall, setup, prof, cfg, bState, hist, nEvents, nCalls, subEvent, stats, corr>>

NextTwoPass ==
    \/ FirstPassEvent
    \/ AttachFirstPass
    \/ SecondPassEvent

SpecTwoPass ==
    InitTwoPass /\ [][NextTwoPass]_vars

(***************************************************************************)
(* The specification of the Profile: Profiles are fed by Update and merged *)
(***************************************************************************)
InitProfile ==
    /\ cfg = RecenteringConfiguration
    /\ step = NewStep("CALIBRATION")
    /\ ev = NoEvent
    /\ bState = "CALIBRATION"
    /\ lastOp = [op |-> "new", arg |-> "-", ret |-> void, out |-> NoOut,
                 from |-> "CALIBRATION", repeat |-> FALSE]
    /\ hist = [attachCalled |-> FALSE, everApplied |-> FALSE, foundBNotApplied |-> FALSE]
    /\ nEvents = 0
    /\ nCalls = 0
    /\ subEvent = NoSubEvent
    /\ run = NoRun
    /\ prof = NoProfiles
    /\ setup = NoSetup
    /\ overall = NoOverall
    /\ stats = NoStats
    /\ corr = NoCorrelation

\* Update on one of the Profiles
ProfileUpdate ==
    /\ \E n \in ProfileNames, u \in ProfileUpdates :
          /\ Len(prof.fed[n]) < MaxUpdates
          /\ \E after \in {ApplyUpdate(prof.p[n], u)} :
                prof' = [prof EXCEPT !.p[n] = after, !.fed[n] = Append(@, u),
                                     !.merged = NoMerge]
    /\ UNCHANGED <<overall, setup, cfg, step, ev, bState, lastOp, hist, nEvents, nCalls, subEvent, run,
            stats, corr>>

\* Merge of the Profiles, in both orders and in both groupings
ProfileMerge ==
    /\ ~prof.merged.done
    /\ \E ab \in {Merge(prof.p["a"], prof.p["b"])}, bc \in {Merge(prof.p["b"], prof.p["c"])} :
          prof' = [prof EXCEPT !.merged =
                      [done |-> TRUE, ab |-> ab, ba |-> Merge(prof.p["b"], prof.p["a"]),
                       ab_c |-> Merge(ab, prof.p["c"]), a_bc |-> Merge(prof.p["a"], bc)]]
    /\ UNCHANGED <<overall, setup, cfg, step, ev, bState, lastOp, hist, nEvents, nCalls, subEvent, run,
            stats, corr>>

NextProfile ==
    \/ ProfileUpdate
    \/ ProfileMerge

SpecProfile ==
    InitProfile /\ [][NextProfile]_vars

(***************************************************************************)
(* The specification of the set-up of a twist and rescale step             *)
(***************************************************************************)
InitSetup ==
    /\ cfg \in {c \in Configurations : c.kind = "TwistAndRescale"}
    /\ step = NewStep("CALIBRATION")
    /\ ev = NoEvent
    /\ bState = "CALIBRATION"
    /\ lastOp = [op |-> "new", arg |-> "-", ret |-> void, out |-> NoOut,
                 from |-> "CALIBRATION", repeat |-> FALSE]
    /\ hist = [attachCalled |-> FALSE, everApplied |-> FALSE, foundBNotApplied |-> FALSE]
    /\ nEvents = 0
    /\ nCalls = 0
    /\ subEvent = NoSubEvent
    /\ run = NoRun
    /\ prof = NoProfiles
    /\ setup = NewSetup
    /\ overall = NoOverall
    /\ stats = NoStats
    /\ corr = NoCorrelation

SetReferenceConfigurationsForTwistAndRescale ==
    /\ setup.phase = "new"
    /\ \E nameB \in ReferenceNames, nameC \in ReferenceNames :
          setup' = TwistAndRescale_SetReferenceConfigurationsForTwistAndRescale(setup, nameB, nameC)
    /\ lastOp' = [lastOp EXCEPT !.op = "SetReferenceConfigurationsForTwistAndRescale"]
    /\ UNCHANGED <<overall, cfg, step, ev, bState, hist, nEvents, nCalls, subEvent, run, prof,
            stats, corr>>

CreateSupportDataStructures ==
    /\ setup.phase = "new"
    /\ setup' = TwistAndRescale_CreateSupportDataStructures(cfg, setup)
    /\ lastOp' = [lastOp EXCEPT !.op = "CreateSupportDataStructures"]
    /\ UNCHANGED <<overall, cfg, step, ev, bState, hist, nEvents, nCalls, subEvent, run, prof,
            stats, corr>>

CreateSupportHistograms ==
    /\ setup.phase = "structures" /\ setup.outcome = "ok"
    /\ setup' \in TwistAndRescale_CreateSupportHistograms(cfg, setup)
    /\ lastOp' = [lastOp EXCEPT !.op = "CreateSupportHistograms", !.ret = kTRUE]
    /\ UNCHANGED <<overall, cfg, step, ev, bState, hist, nEvents, nCalls, subEvent, run, prof,
            stats, corr>>

\* the inputs are offered to the step
SetupAttachInput ==
    /\ setup.phase = "histograms" /\ setup.outcome = "ok"
    /\ \E list \in Lists(cfg) :
          /\ step' = AttachInput(cfg, Call(step), list)
          /\ lastOp' = Op("AttachInput", IF list.found THEN "found" ELSE "notfound",
                          step, step')
    /\ setup' = [setup EXCEPT !.phase = "inputs"]
    /\ UNCHANGED <<overall, cfg, ev, bState, hist, nEvents, nCalls, subEvent, run, prof, stats, corr>>

\* AfterInputsAttachActions: the correlations method asks the B detector
\* configuration whether its twist is being applied
SetupAfterInputsAttachActions ==
    /\ setup.phase = "inputs" /\ setup.outcome = "ok"
    /\ \E bApplied \in BOOLEAN :
          /\ step' = AfterInputsAttachActions(cfg, Call(step), bApplied)
          /\ lastOp' = Op("AfterInputsAttachActions", "-", step, step')
    /\ \E o \in (IF IsCorrelations(cfg) /\ setup.fBDetectorConfiguration = "nullptr"
                  THEN Undefined ELSE {"ok"}) :
          setup' = [setup EXCEPT !.phase = "running", !.outcome = o]
    /\ UNCHANGED <<overall, cfg, ev, bState, hist, nEvents, nCalls, subEvent, run, prof, stats, corr>>

\* the data collection of an event: the correlations method reads the current
\* Qn vectors of B and C when the input Qn vector is of good quality
SetupProcessDataCollection ==
    /\ setup.phase = "running" /\ setup.outcome = "ok"
    /\ nEvents < MaxEvents
    /\ \E e \in Events(cfg) :
          /\ ev' = e
          /\ \E s0 \in {[ClearCorrectionStep(cfg, Call(step)) EXCEPT
                             !.fCurrentQnVector = "plain"]} :
             \E after \in {ProcessDataCollection(cfg, Call(s0), e)} :
                /\ step' = after
                /\ lastOp' = Op("ProcessDataCollection", "-", step, after)
          /\ \E o \in (IF NullReference(cfg, setup) /\ e.plain.good
                           /\ step.fState \in {"CALIBRATION", "APPLYCOLLECT"}
                        THEN Undefined ELSE {"ok"}) :
                setup' = [setup EXCEPT !.outcome = o]
    /\ nEvents' = nEvents + 1
    /\ UNCHANGED <<overall, cfg, bState, hist, nCalls, subEvent, run, prof, stats, corr>>

NextSetup ==
    \/ SetReferenceConfigurationsForTwistAndRescale
    \/ CreateSupportDataStructures
    \/ CreateSupportHistograms
    \/ SetupAttachInput
    \/ SetupAfterInputsAttachActions
    \/ SetupProcessDataCollection

SpecSetup ==
    InitSetup /\ [][NextSetup]_vars

(***************************************************************************)
(* The specification of the overall set of correction steps               *)
(***************************************************************************)
InitOrder ==
    /\ cfg = BConfiguration
    /\ step = NewStep("CALIBRATION")
    /\ ev = NoEvent
    /\ bState = "CALIBRATION"
    /\ lastOp = [op |-> "new", arg |-> "-", ret |-> void, out |-> NoOut,
                 from |-> "CALIBRATION", repeat |-> FALSE]
    /\ hist = [attachCalled |-> FALSE, everApplied |-> FALSE, foundBNotApplied |-> FALSE]
    /\ nEvents = 0
    /\ nCalls = 0
    /\ subEvent = NoSubEvent
    /\ run = NoRun
    /\ prof = NoProfiles
    /\ setup = NoSetup
    /\ overall = NoOverall
    /\ stats = NoStats
    /\ corr = NoCorrelation

\* a sub-event adds its Qn vector corrections to the overall set
FillOverallQnVectorCorrectionStepList ==
    /\ \E corrections \in QnVectorCorrections :
       \E set \in {SubEventTracks_FillOverallQnVectorCorrectionStepList(corrections,
                                                                        overall.set)} :
          overall' = [set |-> set, filled |-> corrections]
    /\ UNCHANGED <<cfg, step, ev, bState, lastOp, hist, nEvents, nCalls, subEvent, run, prof,
                   setup, stats, corr>>

NextOrder ==
    FillOverallQnVectorCorrectionStepList

SpecOrder ==
    InitOrder /\ [][NextOrder]_vars

(***************************************************************************)
(* The specification of a step that applies a persisted calibration: the   *)
(* step is a recentering or a double harmonic twist and rescale in an      *)
(* applying state, and its input histograms are one of the tables          *)
(***************************************************************************)
InitTables ==
    /\ cfg \in {c \in Configurations :
                  \/ c.kind = "Recentering"
                  \/ /\ c.kind = "TwistAndRescale"
                     /\ c.fTwistAndRescaleMethod = "TWRESCALE_doubleHarmonic"}
    /\ \E st \in Applying, table \in Tables(cfg) :
          /\ step = [NewStep(st) EXCEPT !.fInputHistograms = table]
          /\ lastOp = [op |-> "new", arg |-> "-", ret |-> void, out |-> NoOut,
                       from |-> st, repeat |-> FALSE]
    /\ hist = [attachCalled |-> TRUE, everApplied |-> TRUE, foundBNotApplied |-> FALSE]
    /\ ev = NoEvent
    /\ bState = "CALIBRATION"
    /\ nEvents = 0
    /\ nCalls = 0
    /\ subEvent = NoSubEvent
    /\ run = NoRun
    /\ prof = NoProfiles
    /\ setup = NoSetup
    /\ overall = NoOverall
    /\ stats = NoStats
    /\ corr = NoCorrelation

NextTables ==
    \/ NewEvent
    \/ CallProcessCorrections
    \/ CallProcessDataCollection

SpecTables ==
    InitTables /\ [][NextTables]_vars

(***************************************************************************)
(* The specification of the runs of a correlations twist and rescale A     *)
(* with its reference sub-event B.  A run attaches the calibration the     *)
(* earlier runs persisted, if it is offered, then checks the requirements  *)
(* of the steps, then processes its events; at its end the calibration     *)
(* histograms of the run are persisted.  run.pass is the number of the     *)
(* run, aFound and bFound tell whether a calibration of A and of the twist *)
(* of B is persisted, bApplied whether B applied its twist in each run.    *)
(***************************************************************************)
MaxRuns == 3

MaxRunEvents == 2

NoRuns ==
    [pass |-> 0, phase |-> "idle", aFound |-> FALSE, bFound |-> FALSE,
     bCollected |-> FALSE, bApplied |-> <<>>, seen |-> 0]

InitRuns ==
    /\ cfg \in {c \in Configurations : IsCorrelations(c)}
    /\ step = NewStep("CALIBRATION")
    /\ ev = NoEvent
    /\ bState = "CALIBRATION"
    /\ lastOp = [op |-> "new", arg |-> "-", ret |-> void, out |-> NoOut,
                 from |-> "CALIBRATION", repeat |-> FALSE]
    /\ hist = [attachCalled |-> FALSE, everApplied |-> FALSE, foundBNotApplied |-> FALSE]
    /\ nEvents = 0
    /\ nCalls = 0
    /\ subEvent = NoSubEvent
    /\ run = NoRuns
    /\ prof = NoProfiles
    /\ setup = NoSetup
    /\ overall = NoOverall
    /\ stats = NoStats
    /\ corr = NoCorrelation

\* the start of a run: new steps, AttachInput with the calibration offered to
\* the run (found only if an earlier run persisted it), then
\* AfterInputsAttachActions
StartRun ==
    /\ run.phase = "idle"
    /\ run.pass < MaxRuns
    /\ \E listA \in {l \in Lists(cfg) : l.found => run.aFound},
          listB \in {l \in Lists(BConfiguration) : l.found => run.bFound} :
       \E b \in {TwistAndRescale_AttachInput(BConfiguration, NewStep("CALIBRATION"),
                                              listB).fState} :
       \E s1 \in {AttachInput(cfg, Call(NewStep("CALIBRATION")), listA)} :
       \E s2 \in {AfterInputsAttachActions(cfg, Call(s1), IsCorrectionStepBeingApplied(b))} :
          /\ bState' = b
          /\ step' = s2
          /\ lastOp' = Op("StartRun", IF listA.found THEN "found" ELSE "notfound", step, s2)
          /\ run' = [run EXCEPT !.pass = @ + 1, !.phase = "events", !.seen = 0,
                                !.bCollected = FALSE,
                                !.bApplied = Append(@, IsCorrectionStepBeingApplied(b))]
    /\ ev' = NoEvent
    /\ UNCHANGED <<cfg, hist, nEvents, nCalls, subEvent, prof, setup, overall, stats, corr>>

\* an event of the run: the step is cleared, the corrections are processed and
\* then the data collection; the twist of B, a double harmonic one, collects
\* when B has a good Qn vector
RunEvent ==
    /\ run.phase = "events"
    /\ run.seen < MaxRunEvents
    /\ \E e \in Events(cfg) :
          /\ ev' = e
          /\ \E s0 \in {ClearedStep(cfg, step)} :
             \E s1 \in {ProcessCorrections(cfg, Call(s0), e)} :
             \E after \in {ProcessDataCollection(cfg, Call(s1), e)} :
                /\ step' = after
                /\ lastOp' = Op("ProcessEvent", "-", step, after)
          /\ run' = [run EXCEPT !.seen = @ + 1,
                                !.bCollected = @ \/ (e.bQn.good /\ bState \in {"CALIBRATION",
                                                                                "APPLYCOLLECT"})]
    /\ UNCHANGED <<cfg, bState, hist, nEvents, nCalls, subEvent, prof, setup, overall, stats, corr>>

\* the end of a run: the calibration histograms that were filled are persisted
EndRun ==
    /\ run.phase = "events"
    /\ run' = [run EXCEPT !.phase = "idle",
                          !.aFound = @ \/ step.fCalibrationHistograms # <<>>,
                          !.bFound = @ \/ run.bCollected]
    /\ lastOp' = Op("EndRun", "-", step, step)
    /\ UNCHANGED <<cfg, step, ev, bState, hist, nEvents, nCalls, subEvent, prof, setup,
                   overall, stats, corr>>

NextRuns ==
    \/ StartRun
    \/ RunEvent
    \/ EndRun

SpecRuns ==
    InitRuns /\ [][NextRuns]_vars

(***************************************************************************)
(* The specification of the Stats: two Stats are merged in both orders     *)
(***************************************************************************)
InitStats ==
    /\ cfg = BConfiguration
    /\ step = NewStep("CALIBRATION")
    /\ ev = NoEvent
    /\ bState = "CALIBRATION"
    /\ lastOp = [op |-> "new", arg |-> "-", ret |-> void, out |-> NoOut,
                 from |-> "CALIBRATION", repeat |-> FALSE]
    /\ hist = [attachCalled |-> FALSE, everApplied |-> FALSE, foundBNotApplied |-> FALSE]
    /\ nEvents = 0
    /\ nCalls = 0
    /\ subEvent = NoSubEvent
    /\ run = NoRun
    /\ prof = NoProfiles
    /\ setup = NoSetup
    /\ overall = NoOverall
    /\ \E lhs \in StatsValues, rhs \in StatsValues :
          stats = [lhs |-> lhs, rhs |-> rhs, merged |-> NoStatsMerge]
    /\ corr = NoCorrelation

\* Merge(lhs, rhs) and Merge(rhs, lhs)
StatsMerge ==
    /\ ~stats.merged.done
    /\ \E lr \in {Stats_Merge(stats.lhs, stats.rhs)} :
       \E rl \in {Stats_Merge(stats.rhs, stats.lhs)} :
          stats' = [stats EXCEPT !.merged = [done |-> TRUE,
                                             rules |-> Stats_MergeRules(stats.lhs, stats.rhs),
                                             lr |-> lr, rl |-> rl]]
    /\ UNCHANGED <<cfg, step, ev, bState, lastOp, hist, nEvents, nCalls, subEvent, run, prof,
                   setup, overall, corr>>

NextStats ==
    StatsMerge

SpecStats ==
    InitStats /\ [][NextStats]_vars

(***************************************************************************)
(* The specification of the Correlation: a Correlation of some inputs is   *)
(* filled with the containers of one event after the other                 *)
(***************************************************************************)
InitCorrelation ==
    /\ cfg = BConfiguration
    /\ step = NewStep("CALIBRATION")
    /\ ev = NoEvent
    /\ bState = "CALIBRATION"
    /\ lastOp = [op |-> "new", arg |-> "-", ret |-> void, out |-> NoOut,
                 from |-> "CALIBRATION", repeat |-> FALSE]
    /\ hist = [attachCalled |-> FALSE, everApplied |-> FALSE, foundBNotApplied |-> FALSE]
    /\ nEvents = 0
    /\ nCalls = 0
    /\ subEvent = NoSubEvent
    /\ run = NoRun
    /\ prof = NoProfiles
    /\ setup = NoSetup
    /\ overall = NoOverall
    /\ stats = NoStats
    /\ \E input \in CorrelationInputs : corr = [NoCorrelation EXCEPT !.inputs_ = input]

\* Correlation::Fill with the containers of an event in the bin e of the event axis
Fill ==
    /\ \E e \in 0..(MaxBins - 1) :
       \E calls \in {Correlation_Fill(corr.inputs_, <<e>>)} :
          corr' = [corr EXCEPT !.filled = TRUE, !.eventindex = <<e>>, !.calls = calls]
    /\ UNCHANGED <<cfg, step, ev, bState, lastOp, hist, nEvents, nCalls, subEvent, run, prof,
                   setup, overall, stats>>

NextCorrelation ==
    Fill

SpecCorrelation ==
    InitCorrelation /\ [][NextCorrelation]_vars

(***************************************************************************)
(* The state machine of a correction step                                  *)
(***************************************************************************)
\* the step taken is the call name on the step (and no step of sub-event B)
IsCall(name) ==
    lastOp'.op = name /\ bState' = bState

ReportsSuccess(c, s) ==
    s.ret = IF c.kind = "GainEqualization" THEN void ELSE kTRUE

NeverAttachedState ==
    ~hist.attachCalled =>
        \/ step.fState = "CALIBRATION"
        \/ step.fState = "PASSIVE" /\ IsCorrelations(cfg) /\ hist.foundBNotApplied

C2_FailedAttachKeepsState ==
    [][(IsCall("AttachInput") /\ lastOp'.arg = "notfound")
         => /\ step'.fState = step.fState
            /\ step'.ret = IF cfg.kind = "GainEqualization" THEN void ELSE kFALSE]_vars

C2_Witness ==
    /\ lastOp.op = "AttachInput" /\ lastOp.arg = "notfound"
    /\ lastOp.from = "APPLYCOLLECT" /\ step.fState = "APPLYCOLLECT"

\* C2 as stated: after a failed AttachInput the step is in CALIBRATION
\* whatever its state before
C2_Original ==
    (lastOp.op = "AttachInput" /\ lastOp.arg = "notfound") => step.fState = "CALIBRATION"

\* C3: a step that has been in APPLYCOLLECT or APPLY is never in CALIBRATION again
C3_NoReturnToCalibration ==
    hist.everApplied => step.fState # "CALIBRATION"

C3_Witness ==
    /\ hist.everApplied
    /\ lastOp.op = "AttachInput" /\ lastOp.arg = "notfound"
    /\ nEvents > 0 /\ nCalls > 0

C5_PassiveOnlyByFailedCheck ==
    step.fState = "PASSIVE" =>
        /\ cfg.kind = "TwistAndRescale"
        /\ cfg.fTwistAndRescaleMethod = "TWRESCALE_correlations"
        /\ hist.foundBNotApplied

C5_Witness ==
    step.fState = "PASSIVE" /\ lastOp.op = "AfterInputsAttachActions"

\* the run goes on: the framework keeps calling the operations of the step
FairSpec ==
    Spec /\ WF_vars(Next)

\* C6 (as amended): no sequence of the operations of a step puts it in APPLY: a
\* step that attached its calibration is in APPLYCOLLECT, or in PASSIVE, after
\* every operation.  APPLY is a value of the State enumeration that no
\* operation of a step assigns.
C6_ApplyNeverEntered ==
    /\ step.fState # "APPLY"
    /\ hist.everApplied => step.fState \in {"APPLYCOLLECT", "PASSIVE"}

C6_Witness ==
    /\ hist.everApplied /\ step.fState = "APPLYCOLLECT"
    /\ lastOp.op = "ProcessDataCollection" /\ nEvents > 0

\* C6 as stated: some sequence of operations takes a step that attached its
\* calibration to APPLY; the run that keeps calling operations gets there
C6_Original ==
    <>(step.fState = "APPLY")

\* C7: AttachInput is idempotent: from every state of every step, a second
\* AttachInput with the same list right after the first leaves the step as the
\* first left it (state, attached input, hard-coded weights) and returns what
\* the first returned
C7_AttachInputIdempotent ==
    [][(IsCall("AttachInput") /\ lastOp'.repeat) => step' = step]_vars

C7_Witness ==
    /\ lastOp.op = "AttachInput" /\ lastOp.repeat /\ lastOp.arg = "found"
    /\ lastOp.from = "APPLYCOLLECT" /\ step.fState = "APPLYCOLLECT"

\* the calibration fills the event adds for a Recentering or TwistAndRescale
\* step: none unless the input vectors of the step are of good quality
CollectedEntries(c, e) ==
    CASE c.kind = "Recentering" -> IF e.plain.good THEN 2 * NoOfHarmonics ELSE 0
      [] c.kind = "TwistAndRescale" /\ ~IsCorrelations(c) ->
           IF e.q2n.good THEN 2 * NoOfHarmonics ELSE 0
      [] c.kind = "TwistAndRescale" /\ IsCorrelations(c) ->
           IF e.plain.good /\ e.bQn.good /\ e.cQn.good THEN 1 ELSE 0
      [] OTHER -> 0

IsPrefix(a, b) ==
    Len(a) <= Len(b) /\ SubSeq(b, 1, Len(a)) = a

\* C8 (as amended): the ProcessDataCollection of a Recentering or
\* TwistAndRescale step in CALIBRATION or APPLYCOLLECT adds the event to the
\* calibration table of the step if the input vector of the step (double
\* harmonic: the plain Q2n vector; correlations: the input vector and the
\* current vectors of B and C) is of good quality, and adds nothing otherwise;
\* the ProcessDataCollection of a GainEqualization step changes no table in any
\* state; no ProcessDataCollection changes a calibration table in APPLY or
\* PASSIVE.
C8_DataCollection ==
    [][IsCall("ProcessDataCollection") =>
         /\ step'.fInputHistograms = step.fInputHistograms
         /\ IsPrefix(step.fCalibrationHistograms, step'.fCalibrationHistograms)
         /\ Len(step'.fCalibrationHistograms) = Len(step.fCalibrationHistograms) +
              (IF step.fState \in {"CALIBRATION", "APPLYCOLLECT"}
               THEN CollectedEntries(cfg, ev) ELSE 0)
         /\ \A i \in (Len(step.fCalibrationHistograms) + 1)..Len(step'.fCalibrationHistograms) :
               step'.fCalibrationHistograms[i].bin = ev.bin]_vars

C8_Witness ==
    /\ lastOp.op = "ProcessDataCollection" /\ lastOp.from = "APPLYCOLLECT"
    /\ cfg.kind = "Recentering"
    /\ Len(step.fCalibrationHistograms) = 2 * NoOfHarmonics

\* C8 as stated: every step in CALIBRATION or APPLYCOLLECT accumulates the
\* event, and no step in APPLY or PASSIVE changes its table
C8_Original ==
    [][IsCall("ProcessDataCollection") =>
         IF step.fState \in {"CALIBRATION", "APPLYCOLLECT"}
         THEN step'.fCalibrationHistograms # step.fCalibrationHistograms
         ELSE step'.fCalibrationHistograms = step.fCalibrationHistograms]_vars

\* C9: ProcessCorrections returns kTRUE exactly when the step is in
\* APPLYCOLLECT or APPLY and kFALSE exactly when it is in CALIBRATION or
\* PASSIVE, whatever the event holds
C9_ProcessCorrectionsResult ==
    lastOp.op = "ProcessCorrections" =>
        /\ lastOp.ret \in {kTRUE, kFALSE}
        /\ lastOp.ret = kTRUE <=> lastOp.from \in {"APPLYCOLLECT", "APPLY"}
        /\ lastOp.ret = kFALSE <=> lastOp.from \in {"CALIBRATION", "PASSIVE"}

C9_Witness ==
    /\ lastOp.op = "ProcessCorrections" /\ lastOp.from = "APPLY" /\ lastOp.ret = kTRUE
    /\ nEvents > 0 /\ ~ev.plain.good /\ ev.bin = 2

\* C10: the ProcessCorrections of a step in CALIBRATION or PASSIVE leaves the
\* output vectors of the step, the current vector of the sub-event and the
\* equalized weight of every contribution of the bank as they were
C10_ProcessCorrectionsIdentity ==
    [][(IsCall("ProcessCorrections") /\ step.fState \in {"CALIBRATION", "PASSIVE"}) =>
         /\ step'.fCorrectedQnVector = step.fCorrectedQnVector
         /\ step'.fTwistCorrectedQnVector = step.fTwistCorrectedQnVector
         /\ step'.fRescaleCorrectedQnVector = step.fRescaleCorrectedQnVector
         /\ step'.fCurrentQnVector = step.fCurrentQnVector
         /\ step'.fDataVectorBank = step.fDataVectorBank
         /\ ev' = ev]_vars

C10_Witness ==
    /\ lastOp.op = "ProcessCorrections" /\ lastOp.from = "CALIBRATION"
    /\ IsGainEqualization(cfg.kind)
    /\ Len(step.fDataVectorBank) > 0
    /\ Len(step.fCalibrationHistograms) = Len(step.fDataVectorBank)

(***************************************************************************)
(* The data of the correction steps                                        *)
(***************************************************************************)
\* the calibration histograms of stage i of the sub-event
StageTable(se, i) ==
    se.corrections[i].s.fCalibrationHistograms

\* the step is a call on stage i of the sub-event
IsStageCall(name, i) ==
    lastOp'.op = name /\ lastOp'.arg = ToString(i)

\* C11: the calibration histograms of a stage change only during a call on
\* that stage: for recentering and for twist and rescale during its
\* ProcessDataCollection in CALIBRATION or APPLYCOLLECT, for gain equalization
\* during its ProcessCorrections in CALIBRATION or APPLYCOLLECT (its
\* ProcessDataCollection fills nothing); attaching the inputs, the actions
\* after the attachment, the usage report and the clearing of the steps leave
\* every table as it was, and so does every call on another stage.
C11_TableChanges ==
    [][\A i \in DOMAIN subEvent.corrections :
          StageTable(subEvent', i) # StageTable(subEvent, i) =>
             /\ lastOp'.from \in {"CALIBRATION", "APPLYCOLLECT"}
             /\ IsPrefix(StageTable(subEvent, i), StageTable(subEvent', i))
             /\ IF IsGainEqualization(subEvent.corrections[i].c.kind)
                THEN IsStageCall("ProcessCorrections", i)
                ELSE IsStageCall("ProcessDataCollection", i)]_vars

\* gain equalization has filled its table in ProcessCorrections and then
\* recentering its own in ProcessDataCollection
C11_Witness ==
    /\ subEvent.kind = "SubEventChannels"
    /\ lastOp.op = "ProcessDataCollection" /\ lastOp.arg = "2"
    /\ StageTable(subEvent, 1) # <<>>
    /\ StageTable(subEvent, 2) # <<>>

\* C11 as stated: a table changes only during the ProcessDataCollection of
\* its own stage
C11_Original ==
    [][\A i \in DOMAIN subEvent.corrections :
          StageTable(subEvent', i) # StageTable(subEvent, i) =>
             IsStageCall("ProcessDataCollection", i)]_vars

\* the vector a step publishes as the current Qn vector of its sub-event
PublishedVector(c) ==
    CASE c.kind = "Recentering" -> "corrected"
      [] c.fApplyRescale -> "rescale"
      [] c.fApplyTwist -> "twist"
      [] OTHER -> "none"

\* C12 (as amended): after a ProcessCorrections of a Recentering or
\* TwistAndRescale step that reports applied, the current Qn vector of the
\* sub-event is the vector the step publishes (recentering: its corrected
\* vector; twist and rescale: its rescaled vector when rescale is on, else
\* its twisted vector when twist is on); with twist and rescale both off the
\* step reports applied and the current Qn vector is the one of before; after
\* a call that reports not applied the current Qn vector is the one of before.
C12_CurrentVector ==
    [][IsCall("ProcessCorrections") /\ cfg.kind \in {"Recentering", "TwistAndRescale"} =>
          IF lastOp'.ret = kTRUE /\ PublishedVector(cfg) # "none"
          THEN step'.fCurrentQnVector = PublishedVector(cfg)
          ELSE /\ step'.fCurrentQnVector = step.fCurrentQnVector
               /\ GetCurrentQnVector(step', ev') = GetCurrentQnVector(step, ev)]_vars

\* a twist and rescale step with twist and rescale on has published its
\* rescaled vector, one with twist alone its twisted vector, and a step in
\* CALIBRATION left the plain vector current
C12_Witness ==
    /\ lastOp.op = "ProcessCorrections"
    /\ cfg.kind = "TwistAndRescale"
    /\ ev.plain.good
    /\ \/ cfg.fApplyRescale /\ lastOp.ret = kTRUE /\ step.fCurrentQnVector = "rescale"
          /\ step.fRescaleCorrectedQnVector.good
       \/ ~cfg.fApplyRescale /\ cfg.fApplyTwist /\ lastOp.ret = kTRUE
          /\ step.fCurrentQnVector = "twist"

\* C12 as stated: under every combination of the toggles the current Qn
\* vector after a call that reports applied is the output vector of the step
\* (with both toggles off: its corrected vector)
C12_Original ==
    [][IsCall("ProcessCorrections") /\ cfg.kind \in {"Recentering", "TwistAndRescale"}
       /\ lastOp'.ret = kTRUE =>
          step'.fCurrentQnVector =
             IF PublishedVector(cfg) = "none" THEN "corrected" ELSE PublishedVector(cfg)]_vars

\* C13: after AttachCorrectionInputs was offered a list that holds the entry
\* of the detector, AttachInput has been called on every step of the
\* sub-event, and every step whose histograms are in the entry is in
\* APPLYCOLLECT, whether or not a step before it found its own.
C13_AttachReachesEveryStage ==
    lastOp.op = "AttachCorrectionInputs" /\ subEvent.list.entry =>
       \A i \in DOMAIN subEvent.corrections :
          /\ subEvent.called[i]
          /\ subEvent.list.found[i] => subEvent.corrections[i].s.fState = "APPLYCOLLECT"

\* Qx and Qy of every harmonic of v are those of w
SameQ(v, w) ==
    v.qx = w.qx /\ v.qy = w.qy

\* the step is in an applying state and the bin of the event is not validated
\* in its input histograms
NotValidatedBin ==
    step.fState \in Applying /\ ~BinContentValidated(step.fInputHistograms, ev.bin)

NotValidatedFills ==
    CASE ~NotValidatedBin -> 0
      [] cfg.kind \in {"Recentering", "TwistAndRescale"} ->
           IF GetCurrentQnVector(step, ev).good THEN 1 ELSE 0
      [] cfg.fEqualizationMethod = "NONE" -> 0
      [] OTHER -> Len(step.fDataVectorBank)

C16_BadQualityPropagates ==
    [][/\ IsCall("ProcessCorrections") /\ step.fState \in Applying
       /\ cfg.kind \in {"Recentering", "TwistAndRescale"}
       /\ PublishedVector(cfg) # "none"
       /\ ~GetCurrentQnVector(step, ev).good
       => /\ step'.fCurrentQnVector = PublishedVector(cfg)
          /\ ~GetCurrentQnVector(step', ev').good
          /\ SameQ(GetCurrentQnVector(step', ev'), Reset(GetCurrentQnVector(step', ev')))]_vars

\* a twist and rescale in an applying state has processed an event whose
\* plain Qn vector is of bad quality and has published its rescaled vector
C16_Witness ==
    /\ lastOp.op = "ProcessCorrections" /\ lastOp.from \in Applying
    /\ lastOp.ret = kTRUE
    /\ cfg.kind = "TwistAndRescale" /\ cfg.fApplyTwist /\ cfg.fApplyRescale
    /\ nEvents = 1 /\ ~ev.plain.good /\ ev.bin = 1
    /\ step.fCurrentQnVector = "rescale"
    /\ ~step.fRescaleCorrectedQnVector.good

\* A+, A-, Lambda+, Lambda- of a harmonic as the method of the step computes them
HarmonicParameters(c, table, bin, harmonic) ==
    IF c.fTwistAndRescaleMethod = "TWRESCALE_doubleHarmonic"
    THEN DoubleHarmonicParameters(table, bin, harmonic)
    ELSE CorrelationsParameters(table, bin, harmonic)

\* the call is a ProcessCorrections of a twist and rescale step in an applying
\* state that finds a current Qn vector of good quality and a validated bin:
\* the call that enters the loop over the harmonics
IsTwistAndRescaleCorrection ==
    /\ IsCall("ProcessCorrections")
    /\ cfg.kind = "TwistAndRescale"
    /\ step.fState \in Applying
    /\ GetCurrentQnVector(step, ev).good
    /\ BinContentValidated(step.fInputHistograms, ev.bin)

\* the three vectors of the step after the call hold, for the harmonic, the Qx
\* and Qy of the current Qn vector the call found
HarmonicKept(harmonic) ==
    LET cur == GetCurrentQnVector(step, ev)
    IN  \A v \in {step'.fCorrectedQnVector, step'.fTwistCorrectedQnVector,
                  step'.fRescaleCorrectedQnVector} :
           v.qx[harmonic] = cur.qx[harmonic] /\ v.qy[harmonic] = cur.qy[harmonic]

\* C17: in twist and rescale (both methods), for a harmonic whose A+ or A-
\* is exactly zero, the corrected, the twisted and the rescaled vector keep
\* the Qx and Qy of the input for that harmonic.
C17_ZeroParameterKeepsHarmonic ==
    [][IsTwistAndRescaleCorrection =>
          \A h \in Harmonics :
             LET p == HarmonicParameters(cfg, step.fInputHistograms, ev.bin, h)
             IN  DEq(p.Aplus, D(0)) \/ DEq(p.Aminus, D(0)) => HarmonicKept(h)]_vars

\* C18: in twist and rescale (both methods), for a harmonic where |A+|, |A-|,
\* |Lambda+| or |Lambda-| exceeds fMaxThreshold (99999999), the corrected, the
\* twisted and the rescaled vector keep the Qx and Qy of the input for that
\* harmonic, whatever the twist and rescale toggles.
C18_ThresholdKeepsHarmonic ==
    [][IsTwistAndRescaleCorrection =>
          \A h \in Harmonics :
             ExceedsThreshold(HarmonicParameters(cfg, step.fInputHistograms, ev.bin, h))
                => HarmonicKept(h)]_vars

\* a twist and rescale with both toggles on has corrected a good event of the
\* validated bin: harmonic 2, whose Lambda+ exceeds the threshold, holds the
\* input values and the harmonic after it the rescaled ones
C18_Witness ==
    /\ lastOp.op = "ProcessCorrections" /\ lastOp.from \in Applying
    /\ cfg.kind = "TwistAndRescale" /\ cfg.fApplyTwist /\ cfg.fApplyRescale
    /\ ev.plain.good /\ ev.bin = 1 /\ nCalls = 1
    /\ step.fInputHistograms = TableOf(cfg)
    /\ ExceedsThreshold(HarmonicParameters(cfg, step.fInputHistograms, ev.bin, 2))
    /\ step.fRescaleCorrectedQnVector.qx[2] = ev.plain.qx[2]
    /\ step.fRescaleCorrectedQnVector.qy[2] = ev.plain.qy[2]
    /\ step.fRescaleCorrectedQnVector.qx[NoOfHarmonics] # ev.plain.qx[NoOfHarmonics]

\* C19: the loop over the harmonics of the ProcessCorrections of twist and
\* rescale ends after entering every configured harmonic once, in order, and
\* a harmonic that is skipped (threshold exceeded, A+ or A- zero) does not
\* keep the harmonics after it from being corrected: for every harmonic the
\* three vectors hold what the body of the loop makes of the input for that
\* harmonic alone.
C19_EveryHarmonicOnce ==
    [][IsTwistAndRescaleCorrection =>
          LET cur == GetCurrentQnVector(step, ev)
              v0 == [corrected |-> cur, twist |-> cur, rescale |-> cur]
          IN  /\ TwistAndRescale_VisitedHarmonics(cfg, step.fInputHistograms, ev.bin,
                                                  GetFirstHarmonic, <<>>)
                    = [h \in 1..NoOfHarmonics |-> h]
              /\ \A h \in Harmonics :
                    LET p == HarmonicParameters(cfg, step.fInputHistograms, ev.bin, h)
                        r == TwistAndRescale_CorrectHarmonic(cfg, p, v0, h)
                    IN  /\ step'.fCorrectedQnVector.qx[h] = r.corrected.qx[h]
                        /\ step'.fCorrectedQnVector.qy[h] = r.corrected.qy[h]
                        /\ step'.fTwistCorrectedQnVector.qx[h] = r.twist.qx[h]
                        /\ step'.fTwistCorrectedQnVector.qy[h] = r.twist.qy[h]
                        /\ step'.fRescaleCorrectedQnVector.qx[h] = r.rescale.qx[h]
                        /\ step'.fRescaleCorrectedQnVector.qy[h] = r.rescale.qy[h]]_vars

\* a correlations twist and rescale with both toggles on has corrected a good
\* event of the validated bin: harmonic 1 (A+ = 0) was twisted and not
\* rescaled, harmonic 2 (threshold exceeded) was left as it was, and the last
\* harmonic was twisted and rescaled
C19_Witness ==
    /\ lastOp.op = "ProcessCorrections" /\ lastOp.from \in Applying
    /\ cfg.kind = "TwistAndRescale" /\ IsCorrelations(cfg)
    /\ cfg.fApplyTwist /\ cfg.fApplyRescale
    /\ ev.plain.good /\ ev.bin = 1 /\ nCalls = 1
    /\ step.fInputHistograms = CorrelationsTable
    /\ step.fRescaleCorrectedQnVector.qx[1] = step.fTwistCorrectedQnVector.qx[1]
    /\ step.fTwistCorrectedQnVector.qx[1] # ev.plain.qx[1]
    /\ step.fRescaleCorrectedQnVector.qx[2] = ev.plain.qx[2]
    /\ step.fRescaleCorrectedQnVector.qx[NoOfHarmonics]
          # step.fTwistCorrectedQnVector.qx[NoOfHarmonics]
    /\ step.fTwistCorrectedQnVector.qx[NoOfHarmonics] # ev.plain.qx[NoOfHarmonics]

\* the sum of Qx (component "X") or Qy (component "Y") of harmonic h over the
\* vectors of the sequence
RECURSIVE SumOfComponent(_, _, _, _)
SumOfComponent(vectors, component, h, i) ==
    IF i > Len(vectors) THEN D(0)
    ELSE DAdd(IF component = "X" THEN vectors[i].qx[h] ELSE vectors[i].qy[h],
              SumOfComponent(vectors, component, h, i + 1))

\* the second pass has processed every event of the first, and the first
\* collected enough events to validate the bin
TwoPassesDone ==
    /\ run.pass = 2
    /\ Len(run.corrected) = Len(run.events)
    /\ Len(run.events) > fDefaultMinNoOfEntries

\* C20: when a Recentering in CALIBRATION has collected good events of one
\* bin, enough to validate it, and the second pass attaches the resulting
\* table and processes the same events without width equalization, the
\* current Qn vectors of the second pass are of good quality and their Qx and
\* their Qy sum to zero over the events, for every harmonic.
C20_TwoPassRecentering ==
    TwoPassesDone =>
       /\ step.fState = "APPLYCOLLECT"
       /\ \A i \in DOMAIN run.corrected : run.corrected[i].good
       /\ \A h \in Harmonics :
             /\ SumOfComponent(run.corrected, "X", h, 1) = D(0)
             /\ SumOfComponent(run.corrected, "Y", h, 1) = D(0)

\* both passes are done over events whose plain Qn vectors differ, so that
\* the corrected vectors are not zero
C20_Witness ==
    /\ TwoPassesDone
    /\ run.events[1].plain # run.events[2].plain
    /\ run.corrected[1].qx[1] # D(0)
    /\ run.corrected[1] # run.events[1].plain

\* C21: the ProcessCorrections of a Recentering in an applying state, on a
\* current Qn vector of good quality and a validated bin, leaves in the
\* corrected vector, for every harmonic h, Qx(h) = (input Qx(h) - X bin
\* content(bin, h)) / widthX and Qy(h) = (input Qy(h) - Y bin content(bin, h))
\* / widthY, where both widths are 1 without width equalization and the X and
\* Y bin errors of the table with it; the corrected vector is of good quality
\* as its input.
C21_RecenteringFormula ==
    [][/\ IsCall("ProcessCorrections") /\ cfg.kind = "Recentering"
       /\ step.fState \in Applying
       /\ GetCurrentQnVector(step, ev).good
       /\ BinContentValidated(step.fInputHistograms, ev.bin)
       => LET cur == GetCurrentQnVector(step, ev)
              table == step.fInputHistograms
              out == step'.fCorrectedQnVector
          IN  /\ out.good = cur.good
              /\ DOMAIN out.qx = DOMAIN cur.qx /\ DOMAIN out.qy = DOMAIN cur.qy
              /\ \A h \in Harmonics :
                    LET widthX == IF cfg.fApplyWidthEqualization
                                  THEN table.xerr[ev.bin][h] ELSE D(1)
                        widthY == IF cfg.fApplyWidthEqualization
                                  THEN table.yerr[ev.bin][h] ELSE D(1)
                    IN  /\ out.qx[h] = DDiv(DSub(cur.qx[h], table.x[ev.bin][h]), widthX)
                        /\ out.qy[h] = DDiv(DSub(cur.qy[h], table.y[ev.bin][h]), widthY)]_vars

\* a recentering with width equalization has corrected a good event of the
\* validated bin: Qx of harmonic 1 is (2 - 1) / 2 and Qy is (-1 + 1) / (1/2)
C21_Witness ==
    /\ lastOp.op = "ProcessCorrections" /\ lastOp.from \in Applying
    /\ cfg.kind = "Recentering" /\ cfg.fApplyWidthEqualization
    /\ ev.plain.good /\ ev.bin = 1 /\ nCalls = 1
    /\ step.fInputHistograms = RecenteringTable
    /\ step.fCorrectedQnVector.good
    /\ step.fCorrectedQnVector.qx[1] = Frac(1, 2)
    /\ step.fCorrectedQnVector.qy[1] = D(0)
    /\ step.fCorrectedQnVector.qy[2] = D(-4)

\* the call is a ProcessCorrections of a double harmonic twist and rescale
\* with twist and rescale on, in an applying state, on a current Qn vector of
\* good quality and a validated bin
IsDoubleHarmonicCorrection ==
    /\ IsTwistAndRescaleCorrection
    /\ cfg.fTwistAndRescaleMethod = "TWRESCALE_doubleHarmonic"
    /\ cfg.fApplyTwist /\ cfg.fApplyRescale

\* the parameters of the harmonic are in range and A+ and A- are not zero
NonDegenerate(p) ==
    /\ ~ExceedsThreshold(p)
    /\ ~DEq(p.Aplus, D(0)) /\ ~DEq(p.Aminus, D(0))

\* C22: a double harmonic twist and rescale in an applying state with twist
\* and rescale on, on a good current Qn vector and a validated bin, leaves for
\* every harmonic h with non degenerate parameters, with X2n and Y2n the X and
\* Y bin content of the table under the key 2h, A+ = 1 + X2n, A- = 1 - X2n,
\* Lambda+ = Y2n / A+, Lambda- = Y2n / A-: in the twisted vector
\* Qx' = (Qx - Lambda- Qy) / (1 - Lambda- Lambda+) and
\* Qy' = (Qy - Lambda+ Qx) / (1 - Lambda- Lambda+), both from the Qx and Qy of
\* the input, and in the rescaled vector Qx' / A+ and Qy' / A-; and the data
\* collection of the step stores Qx and Qy of harmonic h of the plain Q2n
\* vector under the same key 2h.
C22_DoubleHarmonicFormula ==
    [][/\ IsDoubleHarmonicCorrection =>
             LET cur == GetCurrentQnVector(step, ev)
                 table == step.fInputHistograms
             IN  \A h \in Harmonics :
                    LET X2n == table.x[ev.bin][2 * h]
                        Y2n == table.y[ev.bin][2 * h]
                        Aplus == DAdd(D(1), X2n)
                        Aminus == DSub(D(1), X2n)
                        LambdaPlus == DDiv(Y2n, Aplus)
                        LambdaMinus == DDiv(Y2n, Aminus)
                        den == DSub(D(1), DMul(LambdaMinus, LambdaPlus))
                        Qx == DDiv(DSub(cur.qx[h], DMul(LambdaMinus, cur.qy[h])), den)
                        Qy == DDiv(DSub(cur.qy[h], DMul(LambdaPlus, cur.qx[h])), den)
                    IN  NonDegenerate([Aplus |-> Aplus, Aminus |-> Aminus,
                                       LambdaPlus |-> LambdaPlus,
                                       LambdaMinus |-> LambdaMinus]) =>
                           /\ step'.fTwistCorrectedQnVector.qx[h] = Qx
                           /\ step'.fTwistCorrectedQnVector.qy[h] = Qy
                           /\ step'.fRescaleCorrectedQnVector.qx[h] = DDiv(Qx, Aplus)
                           /\ step'.fRescaleCorrectedQnVector.qy[h] = DDiv(Qy, Aminus)
       /\ (/\ IsCall("ProcessDataCollection") /\ cfg.kind = "TwistAndRescale"
           /\ cfg.fTwistAndRescaleMethod = "TWRESCALE_doubleHarmonic"
           /\ step.fState \in {"CALIBRATION", "APPLYCOLLECT"} /\ ev.q2n.good) =>
             /\ IsPrefix(step.fCalibrationHistograms, step'.fCalibrationHistograms)
             /\ Len(step'.fCalibrationHistograms)
                   = Len(step.fCalibrationHistograms) + 2 * NoOfHarmonics
             /\ \A h \in Harmonics :
                   \E i, j \in (Len(step.fCalibrationHistograms) + 1)
                                ..Len(step'.fCalibrationHistograms) :
                      /\ step'.fCalibrationHistograms[i]
                            = [key |-> <<"X", 2 * h>>, bin |-> ev.bin, val |-> ev.q2n.qx[h]]
                      /\ step'.fCalibrationHistograms[j]
                            = [key |-> <<"Y", 2 * h>>, bin |-> ev.bin, val |-> ev.q2n.qy[h]]]_vars

\* a double harmonic twist and rescale with both toggles on has corrected a
\* good event of the validated bin: for harmonic 3 (X2n = 1/2, Y2n = 1/4,
\* Qx = 4, Qy = -5) the twisted vector holds 78/11 and -68/11 and the
\* rescaled vector 52/11 and -136/11
C22_Witness ==
    /\ lastOp.op = "ProcessCorrections" /\ lastOp.from \in Applying
    /\ cfg.kind = "TwistAndRescale"
    /\ cfg.fTwistAndRescaleMethod = "TWRESCALE_doubleHarmonic"
    /\ cfg.fApplyTwist /\ cfg.fApplyRescale
    /\ ev.plain.good /\ ev.bin = 1 /\ nCalls = 1
    /\ step.fInputHistograms = DoubleHarmonicTable
    /\ step.fTwistCorrectedQnVector.qx[3] = Frac(78, 11)
    /\ step.fTwistCorrectedQnVector.qy[3] = Frac(-68, 11)
    /\ step.fRescaleCorrectedQnVector.qx[3] = Frac(52, 11)
    /\ step.fRescaleCorrectedQnVector.qy[3] = Frac(-136, 11)

\* the call is a ProcessCorrections of an average gain equalization in an
\* applying state
IsAverageEqualization ==
    /\ IsCall("ProcessCorrections")
    /\ IsGainEqualization(cfg.kind) /\ cfg.fEqualizationMethod = "AVERAGE"
    /\ step.fState \in Applying

\* the bin average of the data vector exceeds the minimum significant value
SignificantAverage(dataVector) ==
    DLess(fMinimumSignificantValue, step.fInputHistograms.content[ev.bin][dataVector.id])

\* C23 (as amended): in the ProcessCorrections of an average gain
\* equalization in an applying state, a data vector whose bin is validated
\* and whose bin average exceeds the minimum significant value (1E-6) gets the
\* equalized weight (old equalized weight / bin average) x group weight; a
\* data vector whose bin is validated and whose bin average does not exceed
\* that value gets the equalized weight zero, and the not validated histogram
\* is not filled for it; a data vector whose bin is not validated keeps its
\* equalized weight, and the not validated histogram is filled once for it.
C23_AverageEqualization ==
    [][IsAverageEqualization =>
          LET bank == step.fDataVectorBank
              validated == BinContentValidated(step.fInputHistograms, ev.bin)
          IN  /\ Len(step'.fDataVectorBank) = Len(bank)
              /\ \A i \in DOMAIN bank :
                    /\ step'.fDataVectorBank[i].id = bank[i].id
                    /\ step'.fDataVectorBank[i].w =
                          CASE ~validated -> bank[i].w
                            [] SignificantAverage(bank[i]) ->
                                 DMul(DDiv(bank[i].w,
                                           step.fInputHistograms.content[ev.bin][bank[i].id]),
                                      GainEqualization_GroupWeight(cfg, step, ev.bin, bank[i].id))
                            [] OTHER -> D(0)
              /\ step'.fQANotValidatedBin =
                    step.fQANotValidatedBin + (IF validated THEN 0 ELSE Len(bank))]_vars

\* an average equalization with channel group weights has equalized the two
\* data vectors of an event of the validated bin: channel 0 (average 2, group
\* weight 3) holds (2 / 2) x 3 and channel 1 (average 0) holds zero, and the
\* not validated histogram is empty
C23_Witness ==
    /\ lastOp.op = "ProcessCorrections" /\ lastOp.from \in Applying
    /\ IsGainEqualization(cfg.kind) /\ cfg.fEqualizationMethod = "AVERAGE"
    /\ cfg.fUseChannelGroupsWeights
    /\ ev.bin = 1 /\ Len(ev.bank) = 2 /\ nCalls = 1
    /\ step.fInputHistograms = GainTable
    /\ Len(step.fDataVectorBank) = 2
    /\ step.fDataVectorBank[1].w = D(3)
    /\ step.fDataVectorBank[2].w = D(0)
    /\ step.fQANotValidatedBin = 0

\* C23 as stated: a data vector whose bin is validated and whose bin average
\* exceeds the minimum significant value gets (old equalized weight / bin
\* average) x group weight; in every other case the equalized weight is set
\* to zero and the not validated histogram is filled
C23_Original ==
    [][IsAverageEqualization =>
          LET bank == step.fDataVectorBank
              validated == BinContentValidated(step.fInputHistograms, ev.bin)
              others == {i \in DOMAIN bank : ~(validated /\ SignificantAverage(bank[i]))}
          IN  /\ \A i \in DOMAIN bank :
                    step'.fDataVectorBank[i].w =
                       IF i \in others THEN D(0)
                       ELSE DMul(DDiv(bank[i].w,
                                      step.fInputHistograms.content[ev.bin][bank[i].id]),
                                 GainEqualization_GroupWeight(cfg, step, ev.bin, bank[i].id))
              /\ step'.fQANotValidatedBin = step.fQANotValidatedBin + Cardinality(others)]_vars

\* the entries a collecting gain equalization adds for the data bank: one for
\* each data vector, with its channel and its equalized weight
BankEntries(bank, bin) ==
    [i \in 1..Len(bank) |-> [key |-> <<"M", bank[i].id>>, bin |-> bin, val |-> bank[i].w]]

\* C24: with every method (NONE, AVERAGE, WIDTH), the ProcessCorrections of a
\* gain equalization in CALIBRATION or APPLYCOLLECT adds to the calibration
\* histograms of the step one entry for each data vector of the data bank,
\* whose value is the equalized weight the data vector had when the call was
\* made (before the call equalized it); in APPLY and PASSIVE the call adds
\* nothing, and no other call on the step adds anything, so that an event
\* processed by one ProcessCorrections is collected once.
C24_CollectsBeforeEqualizing ==
    [][IsGainEqualization(cfg.kind) =>
          IF IsCall("ProcessCorrections") /\ step.fState \in {"CALIBRATION", "APPLYCOLLECT"}
          THEN step'.fCalibrationHistograms =
                  step.fCalibrationHistograms \o BankEntries(step.fDataVectorBank, ev.bin)
          ELSE step'.fCalibrationHistograms = step.fCalibrationHistograms]_vars

\* an average equalization in APPLYCOLLECT has processed an event of the
\* validated bin: the table holds the weights 2 and 3 of the event, and the
\* bank the equalized weights 1 and 0
C24_Witness ==
    /\ lastOp.op = "ProcessCorrections" /\ lastOp.from = "APPLYCOLLECT"
    /\ IsGainEqualization(cfg.kind) /\ cfg.fEqualizationMethod = "AVERAGE"
    /\ ~cfg.fUseChannelGroupsWeights /\ ~cfg.hardCodedGroupWeights
    /\ ev.bin = 1 /\ Len(ev.bank) = 2 /\ nCalls = 1
    /\ step.fCalibrationHistograms = BankEntries(ev.bank, 1)
    /\ step.fCalibrationHistograms[1].val = D(2)
    /\ step.fDataVectorBank[1].w = D(1)
    /\ step.fDataVectorBank[2].w = D(0)

\* the fields of two Profiles a merge is to preserve
SameProfile(x, y) ==
    /\ x.entries_ = y.entries_
    /\ x.sum_ = y.sum_
    /\ x.sum2_ = y.sum2_
    /\ x.mean_ = y.mean_
    /\ x.binentries_ = y.binentries_
    /\ x.mult_weight_ = y.mult_weight_

\* C25: the Merge of two Profiles, each fed a sequence of values by Update,
\* has the entries, the sum, the sum of squares, the mean, the bin entries
\* and the multiplicity weight of one Profile fed the first sequence and then
\* the second.
C25_MergeIsConcatenation ==
    prof.merged.done =>
       SameProfile(prof.merged.ab,
                   Feed(Profile_Default, prof.fed["a"] \o prof.fed["b"], 1))

\* C26: for Profiles a, b, c of at least one entry each, Merge(a, b) and
\* Merge(b, a), and Merge(Merge(a, b), c) and Merge(a, Merge(b, c)), agree in
\* the entries, the sum, the sum of squares, the mean, the bin entries and
\* the multiplicity weight.
C26_MergeCommutativeAssociative ==
    (prof.merged.done /\ \A n \in ProfileNames : prof.p[n].entries_ >= 1) =>
       /\ SameProfile(prof.merged.ab, prof.merged.ba)
       /\ SameProfile(prof.merged.ab_c, prof.merged.a_bc)

\* C27: the set-up of a correlations twist and rescale whose reference
\* detector configuration B or C is not named, or is named after a detector
\* configuration the manager does not hold, ends in an error when the support
\* data structures are created: the set-up does not go on to the creation of
\* the histograms or to the events with a reference that is not resolved.
C27_UnresolvedReferenceStopsSetup ==
    (/\ IsCorrelations(cfg)
     /\ setup.phase \notin {"none", "new"}
     /\ \/ FindDetectorConfiguration(setup.fBDetectorConfigurationName) = "nullptr"
        \/ FindDetectorConfiguration(setup.fCDetectorConfigurationName) = "nullptr")
    => setup.phase = "structures" /\ setup.outcome = "error"

\* C28: for both kinds of sub-event and whatever the states of its steps, the
\* vectors the sub-event includes contain the plain vector and the fully
\* corrected vector, and a twist and rescale step adds its twist vector and
\* its rescale vector exactly while it is being applied and the sub-step is
\* enabled
Included ==
    {lastOp.out.list[k] : k \in DOMAIN lastOp.out.list}

C28_ExposedVectors ==
    lastOp.op = "IncludeQnVectors" =>
        /\ "plain" \in Included
        /\ "corrected" \in Included
        /\ \A i \in Stages :
              subEvent.corrections[i].c.kind = "TwistAndRescale" =>
                 /\ "twist" \in Included <=>
                        /\ subEvent.corrections[i].s.fState \in {"APPLYCOLLECT", "APPLY"}
                        /\ subEvent.corrections[i].c.fApplyTwist
                 /\ "rescale" \in Included <=>
                        /\ subEvent.corrections[i].s.fState \in {"APPLYCOLLECT", "APPLY"}
                        /\ subEvent.corrections[i].c.fApplyRescale

\* C29: ReportUsage leaves the step as it was, and for every kind of step it
\* adds the name of the step to the calibration list exactly in CALIBRATION
\* and APPLYCOLLECT, to the apply list exactly in APPLYCOLLECT and APPLY, to
\* neither in PASSIVE, and returns kTRUE exactly when it added the name to the
\* apply list
C29_ReportUsage ==
    [][IsCall("ReportUsage") =>
          /\ Call(step') = Call(step)
          /\ lastOp'.out.calibrationList =
                 IF step.fState \in {"CALIBRATION", "APPLYCOLLECT"}
                 THEN <<CorrectionName(cfg)>> ELSE <<>>
          /\ lastOp'.out.applyList =
                 IF step.fState \in {"APPLYCOLLECT", "APPLY"}
                 THEN <<CorrectionName(cfg)>> ELSE <<>>
          /\ lastOp'.ret \in {kTRUE, kFALSE}
          /\ lastOp'.ret = kTRUE <=> lastOp'.out.applyList # <<>>]_vars

\* a recentering in APPLYCOLLECT has reported its usage: its name is in both
\* lists and kTRUE is returned
C29_Witness ==
    /\ lastOp.op = "ReportUsage" /\ lastOp.from = "APPLYCOLLECT"
    /\ cfg.kind = "Recentering" /\ step.fState = "APPLYCOLLECT"
    /\ lastOp.out.calibrationList = <<"Recentering and width equalization">>
    /\ lastOp.out.applyList = <<"Recentering and width equalization">>
    /\ lastOp.ret = kTRUE

\* C30: the comparison that orders the steps is a strict order that looks at
\* the priority alone, so the overall set of steps built with it is in
\* ascending priority, and of the steps of equal priority only one is kept:
\* the one the set already holds, or the first one offered
Offered ==
    {overall'.set[k] : k \in DOMAIN overall'.set}
        \cup {overall'.filled[k] : k \in DOMAIN overall'.filled}

StrictOnPriority(S) ==
    /\ \A a \in S : ~CompareSteps(a, a)
    /\ \A a \in S, b \in S :
          /\ a.fPriority # b.fPriority => (CompareSteps(a, b) <=> ~CompareSteps(b, a))
          /\ a.fPriority = b.fPriority => ~CompareSteps(a, b)
          /\ CompareSteps(a, b) => a.fPriority < b.fPriority
    /\ \A a \in S, b \in S, c \in S :
          CompareSteps(a, b) /\ CompareSteps(b, c) => CompareSteps(a, c)

Ascending(set) ==
    \A i \in DOMAIN set, j \in DOMAIN set : i < j => set[i].fPriority < set[j].fPriority

KeptOf(set, priority) ==
    {k \in DOMAIN set : set[k].fPriority = priority}

C30_PriorityOrder ==
    [][/\ StrictOnPriority(Offered)
       /\ Ascending(overall'.set)
       /\ \A k \in DOMAIN overall.set :
             \E j \in DOMAIN overall'.set : overall'.set[j] = overall.set[k]
       /\ \A k \in DOMAIN overall'.filled :
             Cardinality(KeptOf(overall'.set, overall'.filled[k].fPriority)) = 1]_vars

\* the set held step a of priority 1; a sub-event offered step b of priority 1
\* and step b of priority 0: the set holds b of priority 0 and then a of
\* priority 1
C30_Witness ==
    /\ overall.filled = <<[fName |-> "b", fPriority |-> 1], [fName |-> "b", fPriority |-> 0]>>
    /\ overall.set = <<[fName |-> "b", fPriority |-> 0], [fName |-> "a", fPriority |-> 1]>>

\* C31: a recentering in an applying state whose table reports mean (0, 0) and
\* width (1, 1) for the validated bin of the event leaves Qx and Qy of every
\* harmonic of its input as they are, with the width equalization on or off
UnitRecentering(table, bin) ==
    \A h \in Harmonics :
        /\ table.x[bin][h] = D(0) /\ table.y[bin][h] = D(0)
        /\ table.xerr[bin][h] = D(1) /\ table.yerr[bin][h] = D(1)

UnitDoubleHarmonic(table, bin) ==
    \A h \in Harmonics : table.x[bin][2 * h] = D(0) /\ table.y[bin][2 * h] = D(0)

AtAverage(s, bin, dataVector) ==
    /\ s.fInputHistograms.content[bin][dataVector.id] = dataVector.w
    /\ DLess(fMinimumSignificantValue, s.fInputHistograms.content[bin][dataVector.id])

C33_AverageFixedPoint ==
    [][(/\ IsCall("ProcessCorrections")
        /\ IsAverageEqualization
        /\ step.fState \in Applying
        /\ BinContentValidated(step.fInputHistograms, ev.bin))
          => \A i \in DOMAIN step.fDataVectorBank :
                AtAverage(step, ev.bin, step.fDataVectorBank[i]) =>
                   /\ step'.fDataVectorBank[i].w =
                          GainEqualization_GroupWeight(cfg, step, ev.bin,
                                                       step.fDataVectorBank[i].id)
                   /\ (~cfg.fUseChannelGroupsWeights /\ ~cfg.hardCodedGroupWeights)
                          => step'.fDataVectorBank[i].w = D(1)
                   /\ cfg.fUseChannelGroupsWeights
                          => step'.fDataVectorBank[i].w =
                                step.fInputHistograms.grp[ev.bin][step.fDataVectorBank[i].id]]_vars

\* an average equalization with hard coded weights has equalized channel 0,
\* whose weight 2 is the average of the channel: its weight is the hard coded
\* weight 2 of the channel
C33_Witness ==
    /\ lastOp.op = "ProcessCorrections" /\ lastOp.from = "APPLYCOLLECT"
    /\ IsGainEqualization(cfg.kind) /\ cfg.fEqualizationMethod = "AVERAGE"
    /\ cfg.hardCodedGroupWeights
    /\ ev.bin = 1 /\ Len(ev.bank) = 2 /\ ev.bank[1].w = D(2) /\ nCalls = 1
    /\ step.fInputHistograms.content[1][0] = D(2)
    /\ step.fDataVectorBank[1].w = D(2)
    /\ step.fHardCodedWeights.w[0] = D(2)

\* C34: the twist and the rescale are independent.  With the twist off and the
\* rescale on, the current Qn vector is the rescale vector and holds Qx / A+
\* and Qy / A- of the input, and no vector of the step holds a twisted
\* value; with the twist on and the rescale off, the current Qn vector is the
\* twist vector and holds the twisted values, not divided by A+ or A-
ParametersOf(c, table, bin, harmonic) ==
    IF c.fTwistAndRescaleMethod = "TWRESCALE_doubleHarmonic"
    THEN DoubleHarmonicParameters(table, bin, harmonic)
    ELSE CorrelationsParameters(table, bin, harmonic)

C34_IndependentSubSteps ==
    [][IsTwistAndRescaleCorrection =>
          LET cur == GetCurrentQnVector(step, ev)
          IN  \A h \in Harmonics :
                 LET p == ParametersOf(cfg, step.fInputHistograms, ev.bin, h)
                     den == DSub(D(1), DMul(p.LambdaMinus, p.LambdaPlus))
                     Qx == DDiv(DSub(cur.qx[h], DMul(p.LambdaMinus, cur.qy[h])), den)
                     Qy == DDiv(DSub(cur.qy[h], DMul(p.LambdaPlus, cur.qx[h])), den)
                 IN  NonDegenerate(p) =>
                        /\ (~cfg.fApplyTwist /\ cfg.fApplyRescale) =>
                               /\ step'.fCurrentQnVector = "rescale"
                               /\ step'.fRescaleCorrectedQnVector.qx[h] = DDiv(cur.qx[h], p.Aplus)
                               /\ step'.fRescaleCorrectedQnVector.qy[h] = DDiv(cur.qy[h], p.Aminus)
                               /\ step'.fCorrectedQnVector.qx[h] = DDiv(cur.qx[h], p.Aplus)
                               /\ step'.fCorrectedQnVector.qy[h] = DDiv(cur.qy[h], p.Aminus)
                               /\ step'.fTwistCorrectedQnVector.qx[h] = cur.qx[h]
                               /\ step'.fTwistCorrectedQnVector.qy[h] = cur.qy[h]
                        /\ (cfg.fApplyTwist /\ ~cfg.fApplyRescale) =>
                               /\ step'.fCurrentQnVector = "twist"
                               /\ step'.fTwistCorrectedQnVector.qx[h] = Qx
                               /\ step'.fTwistCorrectedQnVector.qy[h] = Qy]_vars

\* C35: the processing of events never changes the state of a step:
\* ProcessDataCollection, ProcessCorrections, ReportUsage,
\* IncludeCorrectedQnVector and ClearCorrectionStep (also as part of the start
\* of an event) leave the state as it was, for every kind of step; a step
\* enters APPLYCOLLECT or APPLY only by an AttachInput call that found its
\* input and succeeded, so that a step in an applying state has had such a
\* call and holds the input it attached
EventProcessing ==
    {"NewEvent", "ProcessDataCollection", "ProcessCorrections", "ReportUsage",
     "IncludeCorrectedQnVector", "ClearCorrectionStep"}

C35_EventProcessingKeepsState ==
    [][/\ (\E name \in EventProcessing : IsCall(name)) => step'.fState = step.fState
       /\ (step.fState \notin Applying /\ step'.fState \in Applying) =>
              /\ IsCall("AttachInput")
              /\ lastOp'.arg = "found"
              /\ ReportsSuccess(cfg, step')
       /\ step'.fState \in Applying =>
              /\ hist'.attachCalled
              /\ step'.fInputHistograms = TableOf(cfg)]_vars

\* a recentering that attached its input has gone through an event in
\* APPLYCOLLECT: the event was started, corrected and collected
C35_Witness ==
    /\ cfg.kind = "Recentering" /\ step.fState = "APPLYCOLLECT"
    /\ hist.attachCalled /\ step.fInputHistograms = TableOf(cfg)
    /\ lastOp.op = "ProcessDataCollection" /\ lastOp.from = "APPLYCOLLECT"
    /\ ev.plain.good /\ nEvents = 1 /\ nCalls = 2
    /\ step.fCurrentQnVector = "corrected"
    /\ step.fCalibrationHistograms # <<>>

\* C36: for the same event a recentering and a twist and rescale add the same
\* entries to their calibration histograms in APPLYCOLLECT as in CALIBRATION:
\* Qx and Qy of every harmonic of the input Qn vector of the step
\* (recentering), of the plain Q2n vector under twice the harmonic (double
\* harmonic), or the input Qn vector with the current Qn vectors of B and C
\* (correlations), if those vectors are of good quality and nothing
\* otherwise, and never a value of the corrected vectors of the step
HarmonicEntries(v, bin, factor) ==
    [i \in 1..(2 * NoOfHarmonics) |->
        LET h == (i + 1) \div 2
        IN  IF i % 2 = 1
            THEN [key |-> <<"X", h * factor>>, bin |-> bin, val |-> v.qx[h]]
            ELSE [key |-> <<"Y", h * factor>>, bin |-> bin, val |-> v.qy[h]]]

EventEntries(c, e) ==
    CASE c.kind = "Recentering" ->
           IF e.plain.good THEN HarmonicEntries(e.plain, e.bin, 1) ELSE <<>>
      [] c.fTwistAndRescaleMethod = "TWRESCALE_doubleHarmonic" ->
           IF e.q2n.good THEN HarmonicEntries(e.q2n, e.bin, 2) ELSE <<>>
      [] OTHER ->
           IF e.plain.good /\ e.bQn.good /\ e.cQn.good
           THEN <<[key |-> <<"ABC", 1>>, bin |-> e.bin, val |-> <<e.plain, e.bQn, e.cQn>>]>>
           ELSE <<>>

C36_SameCollection ==
    [][(/\ IsCall("ProcessDataCollection")
        /\ cfg.kind \in {"Recentering", "TwistAndRescale"}
        /\ step.fState \in {"CALIBRATION", "APPLYCOLLECT"})
          => step'.fCalibrationHistograms
                = step.fCalibrationHistograms \o EventEntries(cfg, ev)]_vars

\* a recentering in APPLYCOLLECT has corrected a good event, its corrected
\* vector differing from its input, and then collected the event: the
\* histograms hold Qx and Qy of the input
C36_Witness ==
    /\ lastOp.op = "ProcessDataCollection" /\ lastOp.from = "APPLYCOLLECT"
    /\ cfg.kind = "Recentering" /\ ev.plain.good /\ ev.bin = 1
    /\ step.fCurrentQnVector = "corrected"
    /\ step.fCorrectedQnVector.qx # ev.plain.qx
    /\ step.fCalibrationHistograms = HarmonicEntries(ev.plain, 1, 1)
    /\ step.fCalibrationHistograms[1].val = D(2)

\* C37: over the runs, a correlations twist and rescale A collects calibration
\* data in a run only if B applies its twist in that run.  In a first run, with
\* no calibration at all, B is in CALIBRATION, A is PASSIVE and adds nothing
\* to its calibration histograms, so A is in an applying state no earlier
\* than the run after a run in which B applied its twist
BAppliedBefore ==
    \E m \in 1..(run.pass - 1) : run.bApplied[m]

Asked(i) ==
    \A j \in 1..(i - 1) : subEvent.corrections[j].s.fState \in Applying

NamesOfStages(Test(_)) ==
    LET picked == SelectSeq([i \in 1..Len(subEvent.corrections) |-> i], Test)
    IN  [k \in 1..Len(picked) |-> CorrectionName(subEvent.corrections[picked[k]].c)]

AskedAndCollecting(i) ==
    Asked(i) /\ subEvent.corrections[i].s.fState \in {"CALIBRATION", "APPLYCOLLECT"}

AskedAndApplying(i) ==
    Asked(i) /\ subEvent.corrections[i].s.fState \in Applying

EveryStage(i) ==
    TRUE

C38_ReportStopsAtFirstNotApplied ==
    lastOp.op = "ReportOnCorrections" =>
        /\ lastOp.out.list = NamesOfStages(EveryStage)
        /\ lastOp.out.calibrationList = NamesOfStages(AskedAndCollecting)
        /\ lastOp.out.applyList = NamesOfStages(AskedAndApplying)

\* a tracks sub-event whose recentering and twist and rescale are both in
\* CALIBRATION has reported: both steps are in the steps list, the recentering
\* alone in the calibration list
C38_Witness ==
    /\ lastOp.op = "ReportOnCorrections"
    /\ subEvent.kind = "SubEventTracks"
    /\ subEvent.corrections[1].s.fState = "CALIBRATION"
    /\ subEvent.corrections[2].s.fState = "CALIBRATION"
    /\ lastOp.out.list = <<"Recentering and width equalization", "Twist and Rescale">>
    /\ lastOp.out.calibrationList = <<"Recentering and width equalization">>
    /\ lastOp.out.applyList = <<>>

(***************************************************************************)
(* C39: Merge of two Stats is commutative on the whole Stats: for all      *)
(* statuses of lhs and rhs, Merge(lhs, rhs) and Merge(rhs, lhs) have the   *)
(* same status and bits as well as the same profile and sub-samples, and   *)
(* exactly one of the two merge rules is applied.                          *)
(***************************************************************************)
C39_MergeCommutes ==
    stats.merged.done =>
        /\ stats.merged.lr.status_ = stats.merged.rl.status_
        /\ stats.merged.lr.bits_ = stats.merged.rl.bits_
        /\ stats.merged.lr.profile_ = stats.merged.rl.profile_
        /\ stats.merged.lr.subsamples_ = stats.merged.rl.subsamples_
        /\ Len(stats.merged.rules) = 1

\* the bins of the inputs a call was made for, when it was made for one per input
BinsOfCall(call) ==
    [i \in 1..Len(call.contents) |-> call.contents[i].bin]

\* the index of a call made for the bins b: the bins of the inputs of more than one bin,
\* then the index of the event
RECURSIVE IndexOfBins(_, _, _)
IndexOfBins(inputs, b, i) ==
    IF i > Len(inputs) THEN corr.eventindex
    ELSE (IF inputs[i] # 1 THEN <<b[i]>> ELSE <<>>) \o IndexOfBins(inputs, b, i + 1)

\* every combination of one bin per input
BinCombinations(inputs) ==
    {b \in [1..Len(inputs) -> 0..(MaxBins - 1)] : \A i \in 1..Len(inputs) : b[i] < inputs[i]}

(***************************************************************************)
(* C40: in a Fill over N inputs every call of the correlation function     *)
(* receives exactly N Q-vectors, the i-th a bin of the i-th input, and its *)
(* result is stored at the index built from the bin of every input of more *)
(* than one bin followed by the index of the event; there is a call for    *)
(* every combination of bins, also when an outer input has several bins.   *)
(***************************************************************************)
C40_FillCallsPerCombination ==
    corr.filled =>
        /\ \A k \in DOMAIN corr.calls :
              /\ Len(corr.calls[k].contents) = Len(corr.inputs_)
              /\ \A i \in DOMAIN corr.calls[k].contents :
                    corr.calls[k].contents[i].input = i - 1
              /\ corr.calls[k].cindex
                    = IndexOfBins(corr.inputs_, BinsOfCall(corr.calls[k]), 1)
        /\ \A b \in BinCombinations(corr.inputs_) :
              \E k \in DOMAIN corr.calls : BinsOfCall(corr.calls[k]) = b

====
